---- MODULE Spec2Model ----
(***************************************************************************)
(* A model of the Oslo news pipeline of oslobors-bot:                      *)
(*   scripts/fetch_oslo_news.py  fetch -> parse -> relevance filter ->     *)
(*                               dedupe -> snapshot file                   *)
(*   scripts/sentiment.py        latest snapshot -> article scores ->      *)
(*                               mean -> signal -> Telegram message        *)
(*                                                                         *)
(* Text is a sequence of Unicode code points (Python str), so that strip, *)
(* lower, upper, substring tests and the lexicographic order of file names *)
(* are computed, not assumed.  A float is an IEEE 754 double, computed     *)
(* with the rounding of the interpreter.  The two scripts are separate     *)
(* processes: a run of one is a sequence of steps, one for each access to  *)
(* the clock or the data directory, and the steps of the other may fall    *)
(* in between.                                                             *)
(***************************************************************************)
EXTENDS Integers, Sequences, FiniteSets, TLC

VARIABLES
    now,          \* the wall clock, epoch seconds (time.time / datetime.now)
    dir_exists,   \* whether DATA_DIR exists
    files,        \* DATA_DIR: file name -> <<document>>, or <<>> while the
                  \* file is open for writing and holds no complete document
    saves,        \* history: number of completed save_news_file calls
    last_saved,   \* history: <<d>> for the document d written last, <<>> before
    collected,    \* the run of collect_oslo_news: its inputs, its position
                  \* and its return value
    run,          \* the run of sentiment.main: its position and its outcome
    probe         \* the last direct call of a scoring function

vars == <<now, dir_exists, files, saves, last_saved, collected, run, probe>>

(***************************************************************************)
(* Bounds of the model.                                                    *)
(***************************************************************************)
MaxItems == 3       \* <item> elements of all feed documents of one collection run
MaxSaves == 2       \* saving fetch runs in one behaviour
MaxArticles == 4    \* scored articles handed to the ranking directly

(***************************************************************************)
(* Text: Python str operations on sequences of code points.                *)
(***************************************************************************)
\* str.isspace for one character (the white space str.strip removes)
WhiteSpace ==
    {9, 10, 11, 12, 13, 28, 29, 30, 31, 32, 133, 160,
     5760, 8192, 8193, 8194, 8195, 8196, 8197, 8198, 8199, 8200, 8201, 8202, 8232, 8233, 8239, 8287, 12288}

IsSpace(c) == c \in WhiteSpace

RECURSIVE LStrip(_)
LStrip(s) == IF s # <<>> /\ IsSpace(Head(s)) THEN LStrip(Tail(s)) ELSE s

RECURSIVE RStrip(_)
RStrip(s) ==
    IF s # <<>> /\ IsSpace(s[Len(s)]) THEN RStrip(SubSeq(s, 1, Len(s) - 1)) ELSE s

\* str.strip()
Strip(s) == RStrip(LStrip(s))

\* The simple case mappings of str.lower (Unicode 14.0, the data of the
\* interpreter), as <<first, last, step, delta>>: every code point first,
\* first + step, ..., last maps to itself + delta.
LowerRanges == {
    <<65, 90, 1, 32>>, <<192, 214, 1, 32>>, <<216, 222, 1, 32>>, <<256, 302, 2, 1>>,
    <<306, 310, 2, 1>>, <<313, 327, 2, 1>>, <<330, 374, 2, 1>>, <<376, 376, 1, -121>>,
    <<377, 381, 2, 1>>, <<385, 385, 1, 210>>, <<386, 388, 2, 1>>, <<390, 390, 1, 206>>,
    <<391, 391, 1, 1>>, <<393, 394, 1, 205>>, <<395, 395, 1, 1>>, <<398, 398, 1, 79>>,
    <<399, 399, 1, 202>>, <<400, 400, 1, 203>>, <<401, 401, 1, 1>>, <<403, 403, 1, 205>>,
    <<404, 404, 1, 207>>, <<406, 406, 1, 211>>, <<407, 407, 1, 209>>, <<408, 408, 1, 1>>,
    <<412, 412, 1, 211>>, <<413, 413, 1, 213>>, <<415, 415, 1, 214>>, <<416, 420, 2, 1>>,
    <<422, 422, 1, 218>>, <<423, 423, 1, 1>>, <<425, 425, 1, 218>>, <<428, 428, 1, 1>>,
    <<430, 430, 1, 218>>, <<431, 431, 1, 1>>, <<433, 434, 1, 217>>, <<435, 437, 2, 1>>,
    <<439, 439, 1, 219>>, <<440, 440, 1, 1>>, <<444, 444, 1, 1>>, <<452, 452, 1, 2>>,
    <<453, 453, 1, 1>>, <<455, 455, 1, 2>>, <<456, 456, 1, 1>>, <<458, 458, 1, 2>>,
    <<459, 475, 2, 1>>, <<478, 494, 2, 1>>, <<497, 497, 1, 2>>, <<498, 500, 2, 1>>,
    <<502, 502, 1, -97>>, <<503, 503, 1, -56>>, <<504, 542, 2, 1>>, <<544, 544, 1, -130>>,
    <<546, 562, 2, 1>>, <<570, 570, 1, 10795>>, <<571, 571, 1, 1>>, <<573, 573, 1, -163>>,
    <<574, 574, 1, 10792>>, <<577, 577, 1, 1>>, <<579, 579, 1, -195>>, <<580, 580, 1, 69>>,
    <<581, 581, 1, 71>>, <<582, 590, 2, 1>>, <<880, 882, 2, 1>>, <<886, 886, 1, 1>>,
    <<895, 895, 1, 116>>, <<902, 902, 1, 38>>, <<904, 906, 1, 37>>, <<908, 908, 1, 64>>,
    <<910, 911, 1, 63>>, <<913, 929, 1, 32>>, <<931, 939, 1, 32>>, <<975, 975, 1, 8>>,
    <<984, 1006, 2, 1>>, <<1012, 1012, 1, -60>>, <<1015, 1015, 1, 1>>, <<1017, 1017, 1, -7>>,
    <<1018, 1018, 1, 1>>, <<1021, 1023, 1, -130>>, <<1024, 1039, 1, 80>>,
    <<1040, 1071, 1, 32>>, <<1120, 1152, 2, 1>>, <<1162, 1214, 2, 1>>, <<1216, 1216, 1, 15>>,
    <<1217, 1229, 2, 1>>, <<1232, 1326, 2, 1>>, <<1329, 1366, 1, 48>>, <<4256, 4293, 1, 7264>>,
    <<4295, 4295, 1, 7264>>, <<4301, 4301, 1, 7264>>, <<5024, 5103, 1, 38864>>,
    <<5104, 5109, 1, 8>>, <<7312, 7354, 1, -3008>>, <<7357, 7359, 1, -3008>>,
    <<7680, 7828, 2, 1>>, <<7838, 7838, 1, -7615>>, <<7840, 7934, 2, 1>>,
    <<7944, 7951, 1, -8>>, <<7960, 7965, 1, -8>>, <<7976, 7983, 1, -8>>, <<7992, 7999, 1, -8>>,
    <<8008, 8013, 1, -8>>, <<8025, 8031, 2, -8>>, <<8040, 8047, 1, -8>>, <<8072, 8079, 1, -8>>,
    <<8088, 8095, 1, -8>>, <<8104, 8111, 1, -8>>, <<8120, 8121, 1, -8>>,
    <<8122, 8123, 1, -74>>, <<8124, 8124, 1, -9>>, <<8136, 8139, 1, -86>>,
    <<8140, 8140, 1, -9>>, <<8152, 8153, 1, -8>>, <<8154, 8155, 1, -100>>,
    <<8168, 8169, 1, -8>>, <<8170, 8171, 1, -112>>, <<8172, 8172, 1, -7>>,
    <<8184, 8185, 1, -128>>, <<8186, 8187, 1, -126>>, <<8188, 8188, 1, -9>>,
    <<8486, 8486, 1, -7517>>, <<8490, 8490, 1, -8383>>, <<8491, 8491, 1, -8262>>,
    <<8498, 8498, 1, 28>>, <<8544, 8559, 1, 16>>, <<8579, 8579, 1, 1>>, <<9398, 9423, 1, 26>>,
    <<11264, 11311, 1, 48>>, <<11360, 11360, 1, 1>>, <<11362, 11362, 1, -10743>>,
    <<11363, 11363, 1, -3814>>, <<11364, 11364, 1, -10727>>, <<11367, 11371, 2, 1>>,
    <<11373, 11373, 1, -10780>>, <<11374, 11374, 1, -10749>>, <<11375, 11375, 1, -10783>>,
    <<11376, 11376, 1, -10782>>, <<11378, 11378, 1, 1>>, <<11381, 11381, 1, 1>>,
    <<11390, 11391, 1, -10815>>, <<11392, 11490, 2, 1>>, <<11499, 11501, 2, 1>>,
    <<11506, 11506, 1, 1>>, <<42560, 42604, 2, 1>>, <<42624, 42650, 2, 1>>,
    <<42786, 42798, 2, 1>>, <<42802, 42862, 2, 1>>, <<42873, 42875, 2, 1>>,
    <<42877, 42877, 1, -35332>>, <<42878, 42886, 2, 1>>, <<42891, 42891, 1, 1>>,
    <<42893, 42893, 1, -42280>>, <<42896, 42898, 2, 1>>, <<42902, 42920, 2, 1>>,
    <<42922, 42922, 1, -42308>>, <<42923, 42923, 1, -42319>>, <<42924, 42924, 1, -42315>>,
    <<42925, 42925, 1, -42305>>, <<42926, 42926, 1, -42308>>, <<42928, 42928, 1, -42258>>,
    <<42929, 42929, 1, -42282>>, <<42930, 42930, 1, -42261>>, <<42931, 42931, 1, 928>>,
    <<42932, 42946, 2, 1>>, <<42948, 42948, 1, -48>>, <<42949, 42949, 1, -42307>>,
    <<42950, 42950, 1, -35384>>, <<42951, 42953, 2, 1>>, <<42960, 42960, 1, 1>>,
    <<42966, 42968, 2, 1>>, <<42997, 42997, 1, 1>>, <<65313, 65338, 1, 32>>,
    <<66560, 66599, 1, 40>>, <<66736, 66771, 1, 40>>, <<66928, 66964, 2, 39>>,
    <<66929, 66937, 2, 39>>, <<66941, 66953, 2, 39>>, <<66957, 66961, 2, 39>>,
    <<66965, 66965, 1, 39>>, <<68736, 68786, 1, 64>>, <<71840, 71871, 1, 32>>,
    <<93760, 93791, 1, 32>>, <<125184, 125217, 1, 34>>}

\* The code points str.lower maps to more than one character.
LowerSpecial == {
    <<304, <<105, 775>>>>}

\* The simple case mappings of str.upper, as LowerRanges.
UpperRanges == {
    <<97, 122, 1, -32>>, <<181, 181, 1, 743>>, <<224, 246, 1, -32>>, <<248, 254, 1, -32>>,
    <<255, 255, 1, 121>>, <<257, 303, 2, -1>>, <<305, 305, 1, -232>>, <<307, 311, 2, -1>>,
    <<314, 328, 2, -1>>, <<331, 375, 2, -1>>, <<378, 382, 2, -1>>, <<383, 383, 1, -300>>,
    <<384, 384, 1, 195>>, <<387, 389, 2, -1>>, <<392, 392, 1, -1>>, <<396, 396, 1, -1>>,
    <<402, 402, 1, -1>>, <<405, 405, 1, 97>>, <<409, 409, 1, -1>>, <<410, 410, 1, 163>>,
    <<414, 414, 1, 130>>, <<417, 421, 2, -1>>, <<424, 424, 1, -1>>, <<429, 429, 1, -1>>,
    <<432, 432, 1, -1>>, <<436, 438, 2, -1>>, <<441, 441, 1, -1>>, <<445, 445, 1, -1>>,
    <<447, 447, 1, 56>>, <<453, 453, 1, -1>>, <<454, 454, 1, -2>>, <<456, 456, 1, -1>>,
    <<457, 457, 1, -2>>, <<459, 459, 1, -1>>, <<460, 460, 1, -2>>, <<462, 476, 2, -1>>,
    <<477, 477, 1, -79>>, <<479, 495, 2, -1>>, <<498, 498, 1, -1>>, <<499, 499, 1, -2>>,
    <<501, 501, 1, -1>>, <<505, 543, 2, -1>>, <<547, 563, 2, -1>>, <<572, 572, 1, -1>>,
    <<575, 576, 1, 10815>>, <<578, 578, 1, -1>>, <<583, 591, 2, -1>>, <<592, 592, 1, 10783>>,
    <<593, 593, 1, 10780>>, <<594, 594, 1, 10782>>, <<595, 595, 1, -210>>,
    <<596, 596, 1, -206>>, <<598, 599, 1, -205>>, <<601, 601, 1, -202>>, <<603, 603, 1, -203>>,
    <<604, 604, 1, 42319>>, <<608, 608, 1, -205>>, <<609, 609, 1, 42315>>,
    <<611, 611, 1, -207>>, <<613, 613, 1, 42280>>, <<614, 614, 1, 42308>>,
    <<616, 616, 1, -209>>, <<617, 617, 1, -211>>, <<618, 618, 1, 42308>>,
    <<619, 619, 1, 10743>>, <<620, 620, 1, 42305>>, <<623, 623, 1, -211>>,
    <<625, 625, 1, 10749>>, <<626, 626, 1, -213>>, <<629, 629, 1, -214>>,
    <<637, 637, 1, 10727>>, <<640, 640, 1, -218>>, <<642, 642, 1, 42307>>,
    <<643, 643, 1, -218>>, <<647, 647, 1, 42282>>, <<648, 648, 1, -218>>, <<649, 649, 1, -69>>,
    <<650, 651, 1, -217>>, <<652, 652, 1, -71>>, <<658, 658, 1, -219>>, <<669, 669, 1, 42261>>,
    <<670, 670, 1, 42258>>, <<837, 837, 1, 84>>, <<881, 883, 2, -1>>, <<887, 887, 1, -1>>,
    <<891, 893, 1, 130>>, <<940, 940, 1, -38>>, <<941, 943, 1, -37>>, <<945, 961, 1, -32>>,
    <<962, 962, 1, -31>>, <<963, 971, 1, -32>>, <<972, 972, 1, -64>>, <<973, 974, 1, -63>>,
    <<976, 976, 1, -62>>, <<977, 977, 1, -57>>, <<981, 981, 1, -47>>, <<982, 982, 1, -54>>,
    <<983, 983, 1, -8>>, <<985, 1007, 2, -1>>, <<1008, 1008, 1, -86>>, <<1009, 1009, 1, -80>>,
    <<1010, 1010, 1, 7>>, <<1011, 1011, 1, -116>>, <<1013, 1013, 1, -96>>,
    <<1016, 1016, 1, -1>>, <<1019, 1019, 1, -1>>, <<1072, 1103, 1, -32>>,
    <<1104, 1119, 1, -80>>, <<1121, 1153, 2, -1>>, <<1163, 1215, 2, -1>>,
    <<1218, 1230, 2, -1>>, <<1231, 1231, 1, -15>>, <<1233, 1327, 2, -1>>,
    <<1377, 1414, 1, -48>>, <<4304, 4346, 1, 3008>>, <<4349, 4351, 1, 3008>>,
    <<5112, 5117, 1, -8>>, <<7296, 7296, 1, -6254>>, <<7297, 7297, 1, -6253>>,
    <<7298, 7298, 1, -6244>>, <<7299, 7300, 1, -6242>>, <<7301, 7301, 1, -6243>>,
    <<7302, 7302, 1, -6236>>, <<7303, 7303, 1, -6181>>, <<7304, 7304, 1, 35266>>,
    <<7545, 7545, 1, 35332>>, <<7549, 7549, 1, 3814>>, <<7566, 7566, 1, 35384>>,
    <<7681, 7829, 2, -1>>, <<7835, 7835, 1, -59>>, <<7841, 7935, 2, -1>>, <<7936, 7943, 1, 8>>,
    <<7952, 7957, 1, 8>>, <<7968, 7975, 1, 8>>, <<7984, 7991, 1, 8>>, <<8000, 8005, 1, 8>>,
    <<8017, 8023, 2, 8>>, <<8032, 8039, 1, 8>>, <<8048, 8049, 1, 74>>, <<8050, 8053, 1, 86>>,
    <<8054, 8055, 1, 100>>, <<8056, 8057, 1, 128>>, <<8058, 8059, 1, 112>>,
    <<8060, 8061, 1, 126>>, <<8112, 8113, 1, 8>>, <<8126, 8126, 1, -7205>>,
    <<8144, 8145, 1, 8>>, <<8160, 8161, 1, 8>>, <<8165, 8165, 1, 7>>, <<8526, 8526, 1, -28>>,
    <<8560, 8575, 1, -16>>, <<8580, 8580, 1, -1>>, <<9424, 9449, 1, -26>>,
    <<11312, 11359, 1, -48>>, <<11361, 11361, 1, -1>>, <<11365, 11365, 1, -10795>>,
    <<11366, 11366, 1, -10792>>, <<11368, 11372, 2, -1>>, <<11379, 11379, 1, -1>>,
    <<11382, 11382, 1, -1>>, <<11393, 11491, 2, -1>>, <<11500, 11502, 2, -1>>,
    <<11507, 11507, 1, -1>>, <<11520, 11557, 1, -7264>>, <<11559, 11559, 1, -7264>>,
    <<11565, 11565, 1, -7264>>, <<42561, 42605, 2, -1>>, <<42625, 42651, 2, -1>>,
    <<42787, 42799, 2, -1>>, <<42803, 42863, 2, -1>>, <<42874, 42876, 2, -1>>,
    <<42879, 42887, 2, -1>>, <<42892, 42892, 1, -1>>, <<42897, 42899, 2, -1>>,
    <<42900, 42900, 1, 48>>, <<42903, 42921, 2, -1>>, <<42933, 42947, 2, -1>>,
    <<42952, 42954, 2, -1>>, <<42961, 42961, 1, -1>>, <<42967, 42969, 2, -1>>,
    <<42998, 42998, 1, -1>>, <<43859, 43859, 1, -928>>, <<43888, 43967, 1, -38864>>,
    <<65345, 65370, 1, -32>>, <<66600, 66639, 1, -40>>, <<66776, 66811, 1, -40>>,
    <<66967, 67003, 2, -39>>, <<66968, 66976, 2, -39>>, <<66980, 66992, 2, -39>>,
    <<66996, 67000, 2, -39>>, <<67004, 67004, 1, -39>>, <<68800, 68850, 1, -64>>,
    <<71872, 71903, 1, -32>>, <<93792, 93823, 1, -32>>, <<125218, 125251, 1, -34>>}

\* The code points str.upper maps to more than one character (sharp s to SS,
\* the ligatures, the Greek letters with iota subscript, ...).
UpperSpecial == {
    <<223, <<83, 83>>>>, <<329, <<700, 78>>>>, <<496, <<74, 780>>>>,
    <<912, <<921, 776, 769>>>>, <<944, <<933, 776, 769>>>>, <<1415, <<1333, 1362>>>>,
    <<7830, <<72, 817>>>>, <<7831, <<84, 776>>>>, <<7832, <<87, 778>>>>, <<7833, <<89, 778>>>>,
    <<7834, <<65, 702>>>>, <<8016, <<933, 787>>>>, <<8018, <<933, 787, 768>>>>,
    <<8020, <<933, 787, 769>>>>, <<8022, <<933, 787, 834>>>>, <<8064, <<7944, 921>>>>,
    <<8065, <<7945, 921>>>>, <<8066, <<7946, 921>>>>, <<8067, <<7947, 921>>>>,
    <<8068, <<7948, 921>>>>, <<8069, <<7949, 921>>>>, <<8070, <<7950, 921>>>>,
    <<8071, <<7951, 921>>>>, <<8072, <<7944, 921>>>>, <<8073, <<7945, 921>>>>,
    <<8074, <<7946, 921>>>>, <<8075, <<7947, 921>>>>, <<8076, <<7948, 921>>>>,
    <<8077, <<7949, 921>>>>, <<8078, <<7950, 921>>>>, <<8079, <<7951, 921>>>>,
    <<8080, <<7976, 921>>>>, <<8081, <<7977, 921>>>>, <<8082, <<7978, 921>>>>,
    <<8083, <<7979, 921>>>>, <<8084, <<7980, 921>>>>, <<8085, <<7981, 921>>>>,
    <<8086, <<7982, 921>>>>, <<8087, <<7983, 921>>>>, <<8088, <<7976, 921>>>>,
    <<8089, <<7977, 921>>>>, <<8090, <<7978, 921>>>>, <<8091, <<7979, 921>>>>,
    <<8092, <<7980, 921>>>>, <<8093, <<7981, 921>>>>, <<8094, <<7982, 921>>>>,
    <<8095, <<7983, 921>>>>, <<8096, <<8040, 921>>>>, <<8097, <<8041, 921>>>>,
    <<8098, <<8042, 921>>>>, <<8099, <<8043, 921>>>>, <<8100, <<8044, 921>>>>,
    <<8101, <<8045, 921>>>>, <<8102, <<8046, 921>>>>, <<8103, <<8047, 921>>>>,
    <<8104, <<8040, 921>>>>, <<8105, <<8041, 921>>>>, <<8106, <<8042, 921>>>>,
    <<8107, <<8043, 921>>>>, <<8108, <<8044, 921>>>>, <<8109, <<8045, 921>>>>,
    <<8110, <<8046, 921>>>>, <<8111, <<8047, 921>>>>, <<8114, <<8122, 921>>>>,
    <<8115, <<913, 921>>>>, <<8116, <<902, 921>>>>, <<8118, <<913, 834>>>>,
    <<8119, <<913, 834, 921>>>>, <<8124, <<913, 921>>>>, <<8130, <<8138, 921>>>>,
    <<8131, <<919, 921>>>>, <<8132, <<905, 921>>>>, <<8134, <<919, 834>>>>,
    <<8135, <<919, 834, 921>>>>, <<8140, <<919, 921>>>>, <<8146, <<921, 776, 768>>>>,
    <<8147, <<921, 776, 769>>>>, <<8150, <<921, 834>>>>, <<8151, <<921, 776, 834>>>>,
    <<8162, <<933, 776, 768>>>>, <<8163, <<933, 776, 769>>>>, <<8164, <<929, 787>>>>,
    <<8166, <<933, 834>>>>, <<8167, <<933, 776, 834>>>>, <<8178, <<8186, 921>>>>,
    <<8179, <<937, 921>>>>, <<8180, <<911, 921>>>>, <<8182, <<937, 834>>>>,
    <<8183, <<937, 834, 921>>>>, <<8188, <<937, 921>>>>, <<64256, <<70, 70>>>>,
    <<64257, <<70, 73>>>>, <<64258, <<70, 76>>>>, <<64259, <<70, 70, 73>>>>,
    <<64260, <<70, 70, 76>>>>, <<64261, <<83, 84>>>>, <<64262, <<83, 84>>>>,
    <<64275, <<1348, 1350>>>>, <<64276, <<1348, 1333>>>>, <<64277, <<1348, 1339>>>>,
    <<64278, <<1358, 1350>>>>, <<64279, <<1348, 1341>>>>}

\* The case-ignorable code points (str.lower skips them around a capital
\* sigma), as <<first, last>>.
CaseIgnorableRanges == {
    <<39, 39>>, <<46, 46>>, <<58, 58>>, <<94, 94>>, <<96, 96>>, <<168, 168>>, <<173, 173>>,
    <<175, 175>>, <<180, 180>>, <<183, 184>>, <<688, 879>>, <<884, 885>>, <<890, 890>>,
    <<900, 901>>, <<903, 903>>, <<1155, 1161>>, <<1369, 1369>>, <<1375, 1375>>, <<1425, 1469>>,
    <<1471, 1471>>, <<1473, 1474>>, <<1476, 1477>>, <<1479, 1479>>, <<1524, 1524>>,
    <<1536, 1541>>, <<1552, 1562>>, <<1564, 1564>>, <<1600, 1600>>, <<1611, 1631>>,
    <<1648, 1648>>, <<1750, 1757>>, <<1759, 1768>>, <<1770, 1773>>, <<1807, 1807>>,
    <<1809, 1809>>, <<1840, 1866>>, <<1958, 1968>>, <<2027, 2037>>, <<2042, 2042>>,
    <<2045, 2045>>, <<2070, 2093>>, <<2137, 2139>>, <<2184, 2184>>, <<2192, 2193>>,
    <<2200, 2207>>, <<2249, 2306>>, <<2362, 2362>>, <<2364, 2364>>, <<2369, 2376>>,
    <<2381, 2381>>, <<2385, 2391>>, <<2402, 2403>>, <<2417, 2417>>, <<2433, 2433>>,
    <<2492, 2492>>, <<2497, 2500>>, <<2509, 2509>>, <<2530, 2531>>, <<2558, 2558>>,
    <<2561, 2562>>, <<2620, 2620>>, <<2625, 2626>>, <<2631, 2632>>, <<2635, 2637>>,
    <<2641, 2641>>, <<2672, 2673>>, <<2677, 2677>>, <<2689, 2690>>, <<2748, 2748>>,
    <<2753, 2757>>, <<2759, 2760>>, <<2765, 2765>>, <<2786, 2787>>, <<2810, 2815>>,
    <<2817, 2817>>, <<2876, 2876>>, <<2879, 2879>>, <<2881, 2884>>, <<2893, 2893>>,
    <<2901, 2902>>, <<2914, 2915>>, <<2946, 2946>>, <<3008, 3008>>, <<3021, 3021>>,
    <<3072, 3072>>, <<3076, 3076>>, <<3132, 3132>>, <<3134, 3136>>, <<3142, 3144>>,
    <<3146, 3149>>, <<3157, 3158>>, <<3170, 3171>>, <<3201, 3201>>, <<3260, 3260>>,
    <<3263, 3263>>, <<3270, 3270>>, <<3276, 3277>>, <<3298, 3299>>, <<3328, 3329>>,
    <<3387, 3388>>, <<3393, 3396>>, <<3405, 3405>>, <<3426, 3427>>, <<3457, 3457>>,
    <<3530, 3530>>, <<3538, 3540>>, <<3542, 3542>>, <<3633, 3633>>, <<3636, 3642>>,
    <<3654, 3662>>, <<3761, 3761>>, <<3764, 3772>>, <<3782, 3782>>, <<3784, 3789>>,
    <<3864, 3865>>, <<3893, 3893>>, <<3895, 3895>>, <<3897, 3897>>, <<3953, 3966>>,
    <<3968, 3972>>, <<3974, 3975>>, <<3981, 3991>>, <<3993, 4028>>, <<4038, 4038>>,
    <<4141, 4144>>, <<4146, 4151>>, <<4153, 4154>>, <<4157, 4158>>, <<4184, 4185>>,
    <<4190, 4192>>, <<4209, 4212>>, <<4226, 4226>>, <<4229, 4230>>, <<4237, 4237>>,
    <<4253, 4253>>, <<4348, 4348>>, <<4957, 4959>>, <<5906, 5908>>, <<5938, 5939>>,
    <<5970, 5971>>, <<6002, 6003>>, <<6068, 6069>>, <<6071, 6077>>, <<6086, 6086>>,
    <<6089, 6099>>, <<6103, 6103>>, <<6109, 6109>>, <<6155, 6159>>, <<6211, 6211>>,
    <<6277, 6278>>, <<6313, 6313>>, <<6432, 6434>>, <<6439, 6440>>, <<6450, 6450>>,
    <<6457, 6459>>, <<6679, 6680>>, <<6683, 6683>>, <<6742, 6742>>, <<6744, 6750>>,
    <<6752, 6752>>, <<6754, 6754>>, <<6757, 6764>>, <<6771, 6780>>, <<6783, 6783>>,
    <<6823, 6823>>, <<6832, 6862>>, <<6912, 6915>>, <<6964, 6964>>, <<6966, 6970>>,
    <<6972, 6972>>, <<6978, 6978>>, <<7019, 7027>>, <<7040, 7041>>, <<7074, 7077>>,
    <<7080, 7081>>, <<7083, 7085>>, <<7142, 7142>>, <<7144, 7145>>, <<7149, 7149>>,
    <<7151, 7153>>, <<7212, 7219>>, <<7222, 7223>>, <<7288, 7293>>, <<7376, 7378>>,
    <<7380, 7392>>, <<7394, 7400>>, <<7405, 7405>>, <<7412, 7412>>, <<7416, 7417>>,
    <<7468, 7530>>, <<7544, 7544>>, <<7579, 7679>>, <<8125, 8125>>, <<8127, 8129>>,
    <<8141, 8143>>, <<8157, 8159>>, <<8173, 8175>>, <<8189, 8190>>, <<8203, 8207>>,
    <<8216, 8217>>, <<8228, 8228>>, <<8231, 8231>>, <<8234, 8238>>, <<8288, 8292>>,
    <<8294, 8303>>, <<8305, 8305>>, <<8319, 8319>>, <<8336, 8348>>, <<8400, 8432>>,
    <<11388, 11389>>, <<11503, 11505>>, <<11631, 11631>>, <<11647, 11647>>, <<11744, 11775>>,
    <<11823, 11823>>, <<12293, 12293>>, <<12330, 12333>>, <<12337, 12341>>, <<12347, 12347>>,
    <<12441, 12446>>, <<12540, 12542>>, <<40981, 40981>>, <<42232, 42237>>, <<42508, 42508>>,
    <<42607, 42610>>, <<42612, 42621>>, <<42623, 42623>>, <<42652, 42655>>, <<42736, 42737>>,
    <<42752, 42785>>, <<42864, 42864>>, <<42888, 42890>>, <<42994, 42996>>, <<43000, 43001>>,
    <<43010, 43010>>, <<43014, 43014>>, <<43019, 43019>>, <<43045, 43046>>, <<43052, 43052>>,
    <<43204, 43205>>, <<43232, 43249>>, <<43263, 43263>>, <<43302, 43309>>, <<43335, 43345>>,
    <<43392, 43394>>, <<43443, 43443>>, <<43446, 43449>>, <<43452, 43453>>, <<43471, 43471>>,
    <<43493, 43494>>, <<43561, 43566>>, <<43569, 43570>>, <<43573, 43574>>, <<43587, 43587>>,
    <<43596, 43596>>, <<43632, 43632>>, <<43644, 43644>>, <<43696, 43696>>, <<43698, 43700>>,
    <<43703, 43704>>, <<43710, 43711>>, <<43713, 43713>>, <<43741, 43741>>, <<43756, 43757>>,
    <<43763, 43764>>, <<43766, 43766>>, <<43867, 43871>>, <<43881, 43883>>, <<44005, 44005>>,
    <<44008, 44008>>, <<44013, 44013>>, <<64286, 64286>>, <<64434, 64450>>, <<65024, 65039>>,
    <<65043, 65043>>, <<65056, 65071>>, <<65106, 65106>>, <<65109, 65109>>, <<65279, 65279>>,
    <<65287, 65287>>, <<65294, 65294>>, <<65306, 65306>>, <<65342, 65342>>, <<65344, 65344>>,
    <<65392, 65392>>, <<65438, 65439>>, <<65507, 65507>>, <<65529, 65531>>, <<66045, 66045>>,
    <<66272, 66272>>, <<66422, 66426>>, <<67456, 67461>>, <<67463, 67504>>, <<67506, 67514>>,
    <<68097, 68099>>, <<68101, 68102>>, <<68108, 68111>>, <<68152, 68154>>, <<68159, 68159>>,
    <<68325, 68326>>, <<68900, 68903>>, <<69291, 69292>>, <<69446, 69456>>, <<69506, 69509>>,
    <<69633, 69633>>, <<69688, 69702>>, <<69744, 69744>>, <<69747, 69748>>, <<69759, 69761>>,
    <<69811, 69814>>, <<69817, 69818>>, <<69821, 69821>>, <<69826, 69826>>, <<69837, 69837>>,
    <<69888, 69890>>, <<69927, 69931>>, <<69933, 69940>>, <<70003, 70003>>, <<70016, 70017>>,
    <<70070, 70078>>, <<70089, 70092>>, <<70095, 70095>>, <<70191, 70193>>, <<70196, 70196>>,
    <<70198, 70199>>, <<70206, 70206>>, <<70367, 70367>>, <<70371, 70378>>, <<70400, 70401>>,
    <<70459, 70460>>, <<70464, 70464>>, <<70502, 70508>>, <<70512, 70516>>, <<70712, 70719>>,
    <<70722, 70724>>, <<70726, 70726>>, <<70750, 70750>>, <<70835, 70840>>, <<70842, 70842>>,
    <<70847, 70848>>, <<70850, 70851>>, <<71090, 71093>>, <<71100, 71101>>, <<71103, 71104>>,
    <<71132, 71133>>, <<71219, 71226>>, <<71229, 71229>>, <<71231, 71232>>, <<71339, 71339>>,
    <<71341, 71341>>, <<71344, 71349>>, <<71351, 71351>>, <<71453, 71455>>, <<71458, 71461>>,
    <<71463, 71467>>, <<71727, 71735>>, <<71737, 71738>>, <<71995, 71996>>, <<71998, 71998>>,
    <<72003, 72003>>, <<72148, 72151>>, <<72154, 72155>>, <<72160, 72160>>, <<72193, 72202>>,
    <<72243, 72248>>, <<72251, 72254>>, <<72263, 72263>>, <<72273, 72278>>, <<72281, 72283>>,
    <<72330, 72342>>, <<72344, 72345>>, <<72752, 72758>>, <<72760, 72765>>, <<72767, 72767>>,
    <<72850, 72871>>, <<72874, 72880>>, <<72882, 72883>>, <<72885, 72886>>, <<73009, 73014>>,
    <<73018, 73018>>, <<73020, 73021>>, <<73023, 73029>>, <<73031, 73031>>, <<73104, 73105>>,
    <<73109, 73109>>, <<73111, 73111>>, <<73459, 73460>>, <<78896, 78904>>, <<92912, 92916>>,
    <<92976, 92982>>, <<92992, 92995>>, <<94031, 94031>>, <<94095, 94111>>, <<94176, 94177>>,
    <<94179, 94180>>, <<110576, 110579>>, <<110581, 110587>>, <<110589, 110590>>,
    <<113821, 113822>>, <<113824, 113827>>, <<118528, 118573>>, <<118576, 118598>>,
    <<119143, 119145>>, <<119155, 119170>>, <<119173, 119179>>, <<119210, 119213>>,
    <<119362, 119364>>, <<121344, 121398>>, <<121403, 121452>>, <<121461, 121461>>,
    <<121476, 121476>>, <<121499, 121503>>, <<121505, 121519>>, <<122880, 122886>>,
    <<122888, 122904>>, <<122907, 122913>>, <<122915, 122916>>, <<122918, 122922>>,
    <<123184, 123197>>, <<123566, 123566>>, <<123628, 123631>>, <<125136, 125142>>,
    <<125252, 125259>>, <<127995, 127999>>, <<917505, 917505>>, <<917536, 917631>>,
    <<917760, 917999>>}

\* The cased code points that are not case-ignorable, as <<first, last>>.
CasedRanges == {
    <<65, 90>>, <<97, 122>>, <<170, 170>>, <<181, 181>>, <<186, 186>>, <<192, 214>>,
    <<216, 246>>, <<248, 442>>, <<444, 447>>, <<452, 659>>, <<661, 687>>, <<880, 883>>,
    <<886, 887>>, <<891, 893>>, <<895, 895>>, <<902, 902>>, <<904, 906>>, <<908, 908>>,
    <<910, 929>>, <<931, 1013>>, <<1015, 1153>>, <<1162, 1327>>, <<1329, 1366>>,
    <<1376, 1416>>, <<4256, 4293>>, <<4295, 4295>>, <<4301, 4301>>, <<4304, 4346>>,
    <<4349, 4351>>, <<5024, 5109>>, <<5112, 5117>>, <<7296, 7304>>, <<7312, 7354>>,
    <<7357, 7359>>, <<7424, 7467>>, <<7531, 7543>>, <<7545, 7578>>, <<7680, 7957>>,
    <<7960, 7965>>, <<7968, 8005>>, <<8008, 8013>>, <<8016, 8023>>, <<8025, 8025>>,
    <<8027, 8027>>, <<8029, 8029>>, <<8031, 8061>>, <<8064, 8116>>, <<8118, 8124>>,
    <<8126, 8126>>, <<8130, 8132>>, <<8134, 8140>>, <<8144, 8147>>, <<8150, 8155>>,
    <<8160, 8172>>, <<8178, 8180>>, <<8182, 8188>>, <<8450, 8450>>, <<8455, 8455>>,
    <<8458, 8467>>, <<8469, 8469>>, <<8473, 8477>>, <<8484, 8484>>, <<8486, 8486>>,
    <<8488, 8488>>, <<8490, 8493>>, <<8495, 8500>>, <<8505, 8505>>, <<8508, 8511>>,
    <<8517, 8521>>, <<8526, 8526>>, <<8544, 8575>>, <<8579, 8580>>, <<9398, 9449>>,
    <<11264, 11387>>, <<11390, 11492>>, <<11499, 11502>>, <<11506, 11507>>, <<11520, 11557>>,
    <<11559, 11559>>, <<11565, 11565>>, <<42560, 42605>>, <<42624, 42651>>, <<42786, 42863>>,
    <<42865, 42887>>, <<42891, 42894>>, <<42896, 42954>>, <<42960, 42961>>, <<42963, 42963>>,
    <<42965, 42969>>, <<42997, 42998>>, <<43002, 43002>>, <<43824, 43866>>, <<43872, 43880>>,
    <<43888, 43967>>, <<64256, 64262>>, <<64275, 64279>>, <<65313, 65338>>, <<65345, 65370>>,
    <<66560, 66639>>, <<66736, 66771>>, <<66776, 66811>>, <<66928, 66938>>, <<66940, 66954>>,
    <<66956, 66962>>, <<66964, 66965>>, <<66967, 66977>>, <<66979, 66993>>, <<66995, 67001>>,
    <<67003, 67004>>, <<68736, 68786>>, <<68800, 68850>>, <<71840, 71903>>, <<93760, 93823>>,
    <<119808, 119892>>, <<119894, 119964>>, <<119966, 119967>>, <<119970, 119970>>,
    <<119973, 119974>>, <<119977, 119980>>, <<119982, 119993>>, <<119995, 119995>>,
    <<119997, 120003>>, <<120005, 120069>>, <<120071, 120074>>, <<120077, 120084>>,
    <<120086, 120092>>, <<120094, 120121>>, <<120123, 120126>>, <<120128, 120132>>,
    <<120134, 120134>>, <<120138, 120144>>, <<120146, 120485>>, <<120488, 120512>>,
    <<120514, 120538>>, <<120540, 120570>>, <<120572, 120596>>, <<120598, 120628>>,
    <<120630, 120654>>, <<120656, 120686>>, <<120688, 120712>>, <<120714, 120744>>,
    <<120746, 120770>>, <<120772, 120779>>, <<122624, 122633>>, <<122635, 122654>>,
    <<125184, 125251>>, <<127280, 127305>>, <<127312, 127337>>, <<127344, 127369>>}

\* the function of a <<first, last, step, delta>> table
CaseTable(ranges) ==
    [c \in UNION {{r[1] + r[3] * k : k \in 0..((r[2] - r[1]) \div r[3])} : r \in ranges} |->
        c + (CHOOSE r \in ranges : c >= r[1] /\ c <= r[2] /\ (c - r[1]) % r[3] = 0)[4]]

\* the function of a set of <<code point, characters>> pairs
SpecialTable(pairs) ==
    [c \in {p[1] : p \in pairs} |-> (CHOOSE p \in pairs : p[1] = c)[2]]

LowerOne == CaseTable(LowerRanges)

LowerMany == SpecialTable(LowerSpecial)

UpperOne == CaseTable(UpperRanges)

UpperMany == SpecialTable(UpperSpecial)

\* str.lower() on one character other than the capital sigma
LowerChar(c) ==
    IF c \in DOMAIN LowerOne THEN <<LowerOne[c]>>
    ELSE IF c \in DOMAIN LowerMany THEN LowerMany[c]
    ELSE <<c>>

\* str.upper() on one character
UpperChar(c) ==
    IF c \in DOMAIN UpperOne THEN <<UpperOne[c]>>
    ELSE IF c \in DOMAIN UpperMany THEN UpperMany[c]
    ELSE <<c>>

InRanges(c, ranges) == \E r \in ranges : r[1] <= c /\ c <= r[2]

IsCaseIgnorable(c) == InRanges(c, CaseIgnorableRanges)

IsCased(c) == InRanges(c, CasedRanges)

\* whether the capital sigma at position i ends a word: the nearest character
\* before it that is not case-ignorable is cased, and the nearest such
\* character after it, if any, is not
FinalSigma(s, i) ==
    LET before == {j \in 1..(i - 1) : ~IsCaseIgnorable(s[j])}
        after == {j \in (i + 1)..Len(s) : ~IsCaseIgnorable(s[j])}
    IN  /\ before # {}
        /\ IsCased(s[CHOOSE j \in before : \A k \in before : k <= j])
        /\ after = {} \/ ~IsCased(s[CHOOSE j \in after : \A k \in after : j <= k])

\* the characters str.lower() puts for position i of s
LowerAt(s, i) ==
    IF s[i] = 931 THEN (IF FinalSigma(s, i) THEN <<962>> ELSE <<963>>)
    ELSE LowerChar(s[i])

\* "".join(parts[lo..hi])
RECURSIVE Join(_, _, _)
Join(parts, lo, hi) ==
    IF lo > hi THEN <<>>
    ELSE IF lo = hi THEN parts[lo]
    ELSE Join(parts, lo, (lo + hi) \div 2) \o Join(parts, (lo + hi) \div 2 + 1, hi)

\* str.lower()
Lower(s) == Join([i \in 1..Len(s) |-> LowerAt(s, i)], 1, Len(s))

\* str.upper()
Upper(s) == Join([i \in 1..Len(s) |-> UpperChar(s[i])], 1, Len(s))

\* needle in hay
Contains(hay, needle) ==
    \E i \in 0..(Len(hay) - Len(needle)) : SubSeq(hay, i + 1, i + Len(needle)) = needle

\* s.endswith(suffix)
EndsWith(s, suffix) ==
    /\ Len(s) >= Len(suffix)
    /\ SubSeq(s, Len(s) - Len(suffix) + 1, Len(s)) = suffix

\* a < b for str: the first differing code point decides, a proper prefix is less
RECURSIVE LexLess(_, _)
LexLess(a, b) ==
    IF b = <<>> THEN FALSE
    ELSE IF a = <<>> THEN TRUE
    ELSE IF Head(a) # Head(b) THEN Head(a) < Head(b)
    ELSE LexLess(Tail(a), Tail(b))

(***************************************************************************)
(* Natural numbers of any size, as the sequence of their digits to the     *)
(* base 2^15, least significant first and without a leading zero digit:    *)
(* the significand of a double has 53 bits.                                *)
(***************************************************************************)
Base == 32768

RECURSIVE Pow2(_)
Pow2(k) == IF k = 0 THEN 1 ELSE 2 * Pow2(k - 1)

RECURSIVE NatTrim(_)
NatTrim(a) ==
    IF a # <<>> /\ a[Len(a)] = 0 THEN NatTrim(SubSeq(a, 1, Len(a) - 1)) ELSE a

\* the digits of an integer n >= 0
RECURSIVE NatOfInt(_)
NatOfInt(n) == IF n = 0 THEN <<>> ELSE <<n % Base>> \o NatOfInt(n \div Base)

Digit(a, i) == IF i <= Len(a) THEN a[i] ELSE 0

Max(x, y) == IF x >= y THEN x ELSE y

RECURSIVE NatAddFrom(_, _, _, _)
NatAddFrom(a, b, i, carry) ==
    IF i > Max(Len(a), Len(b))
    THEN (IF carry = 0 THEN <<>> ELSE <<carry>>)
    ELSE LET s == Digit(a, i) + Digit(b, i) + carry
         IN  <<s % Base>> \o NatAddFrom(a, b, i + 1, s \div Base)

NatAdd(a, b) == NatAddFrom(a, b, 1, 0)

\* a - b for a >= b
RECURSIVE NatSubFrom(_, _, _, _)
NatSubFrom(a, b, i, borrow) ==
    IF i > Len(a) THEN <<>>
    ELSE LET d == Digit(a, i) - Digit(b, i) - borrow
         IN  <<d % Base>> \o NatSubFrom(a, b, i + 1, IF d < 0 THEN 1 ELSE 0)

NatSub(a, b) == NatTrim(NatSubFrom(a, b, 1, 0))

\* -1, 0 or 1 as a < b, a = b or a > b
RECURSIVE NatCmpFrom(_, _, _)
NatCmpFrom(a, b, i) ==
    IF i = 0 THEN 0
    ELSE IF a[i] < b[i] THEN -1
    ELSE IF a[i] > b[i] THEN 1
    ELSE NatCmpFrom(a, b, i - 1)

NatCmp(a, b) ==
    IF Len(a) < Len(b) THEN -1
    ELSE IF Len(a) > Len(b) THEN 1
    ELSE NatCmpFrom(a, b, Len(a))

\* a * n for 0 <= n < Base
RECURSIVE NatMulSmallFrom(_, _, _, _)
NatMulSmallFrom(a, n, i, carry) ==
    IF i > Len(a) THEN (IF carry = 0 THEN <<>> ELSE <<carry>>)
    ELSE LET p == a[i] * n + carry
         IN  <<p % Base>> \o NatMulSmallFrom(a, n, i + 1, p \div Base)

NatMulSmall(a, n) == IF n = 0 THEN <<>> ELSE NatMulSmallFrom(a, n, 1, 0)

\* a * Base^k
NatShiftDigits(a, k) == IF a = <<>> THEN <<>> ELSE [i \in 1..k |-> 0] \o a

RECURSIVE NatMulFrom(_, _, _)
NatMulFrom(a, b, i) ==
    IF i > Len(b) THEN <<>>
    ELSE NatAdd(NatShiftDigits(NatMulSmall(a, b[i]), i - 1), NatMulFrom(a, b, i + 1))

NatMul(a, b) == NatMulFrom(a, b, 1)

\* a * 2^k
NatShiftLeft(a, k) == NatShiftDigits(NatMulSmall(a, Pow2(k % 15)), k \div 15)

\* a \div n for 0 < n <= Base, from the most significant digit down
RECURSIVE NatDivSmallFrom(_, _, _, _)
NatDivSmallFrom(a, n, i, rem) ==
    IF i = 0 THEN <<>>
    ELSE LET cur == rem * Base + a[i]
         IN  NatDivSmallFrom(a, n, i - 1, cur % n) \o <<cur \div n>>

NatDivSmall(a, n) == NatTrim(NatDivSmallFrom(a, n, Len(a), 0))

\* a \div 2^k
NatShiftRight(a, k) ==
    IF k \div 15 >= Len(a) THEN <<>>
    ELSE NatDivSmall(SubSeq(a, k \div 15 + 1, Len(a)), Pow2(k % 15))

RECURSIVE BitLenInt(_)
BitLenInt(n) == IF n = 0 THEN 0 ELSE 1 + BitLenInt(n \div 2)

\* the number of bits of a
NatBitLen(a) == IF a = <<>> THEN 0 ELSE 15 * (Len(a) - 1) + BitLenInt(a[Len(a)])

\* bit k of a, bit 0 the least significant
NatBit(a, k) == (Digit(a, k \div 15 + 1) \div Pow2(k % 15)) % 2

NatIsOdd(a) == a # <<>> /\ a[1] % 2 = 1

\* the largest digit q with b * q <= cur, for cur < b * Base, found bit by bit
RECURSIVE QuotientDigit(_, _, _, _)
QuotientDigit(cur, b, q, bit) ==
    IF bit = 0 THEN q
    ELSE IF NatCmp(NatMulSmall(b, q + bit), cur) <= 0
         THEN QuotientDigit(cur, b, q + bit, bit \div 2)
         ELSE QuotientDigit(cur, b, q, bit \div 2)

\* <<a \div b, a % b>> for b > 0, by long division from digit i down; qr is the
\* quotient and the remainder of the digits above i
RECURSIVE NatDivModFrom(_, _, _, _)
NatDivModFrom(a, b, i, qr) ==
    IF i = 0 THEN qr
    ELSE LET cur == NatTrim(<<a[i]>> \o qr[2])
             q == QuotientDigit(cur, b, 0, Base \div 2)
         IN  NatDivModFrom(a, b, i - 1,
                <<NatTrim(<<q>> \o qr[1]), NatSub(cur, NatMulSmall(b, q))>>)

NatDivMod(a, b) == NatDivModFrom(a, b, Len(a), <<<<>>, <<>>>>)

(***************************************************************************)
(* Python floats: IEEE 754 binary64 with round-to-nearest-even.  A float   *)
(* is [neg, mant, exp] of value (-1)^neg * mant * 2^exp with mant a 53-bit *)
(* number (2^52 <= mant < 2^53), or mant = 0 and exp = 0 for the two       *)
(* zeros.  The exponent is not bounded: overflow to inf and the subnormal  *)
(* numbers are out of the range of the scores, which lie in [-1, 1].       *)
(***************************************************************************)
MantBits == 53

FZero == [neg |-> FALSE, mant |-> <<>>, exp |-> 0]

FNegZero == [neg |-> TRUE, mant |-> <<>>, exp |-> 0]

FIsZero(a) == a.mant = <<>>

\* the float nearest to (-1)^neg * (n + f) * 2^e, where 0 <= f < 1 and
\* sticky says f > 0 (sticky only with n of more than 53 bits); ties to even
FRound(neg, n, e, sticky) ==
    IF n = <<>> THEN [neg |-> neg, mant |-> <<>>, exp |-> 0]
    ELSE LET len == NatBitLen(n) IN
         IF len <= MantBits
         THEN [neg |-> neg, mant |-> NatShiftLeft(n, MantBits - len),
               exp |-> e - (MantBits - len)]
         ELSE LET k == len - MantBits
                  q == NatShiftRight(n, k)
                  r == NatSub(n, NatShiftLeft(q, k))
                  c == NatCmp(r, NatShiftLeft(<<1>>, k - 1))
                  up == c > 0 \/ (c = 0 /\ (sticky \/ NatIsOdd(q)))
                  m == IF up THEN NatAdd(q, <<1>>) ELSE q
              IN  IF NatBitLen(m) > MantBits
                  THEN [neg |-> neg, mant |-> NatShiftRight(m, 1), exp |-> e + k + 1]
                  ELSE [neg |-> neg, mant |-> m, exp |-> e + k]

\* float(n) for an int n
FromInt(n) == FRound(n < 0, NatOfInt(IF n < 0 THEN -n ELSE n), 0, FALSE)

\* -a
FNeg(a) == [a EXCEPT !.neg = ~a.neg]

\* abs(a)
FAbs(a) == [a EXCEPT !.neg = FALSE]

\* -1, 0 or 1 as |a| < |b|, |a| = |b| or |a| > |b|
FCmpAbs(a, b) ==
    IF FIsZero(a) THEN (IF FIsZero(b) THEN 0 ELSE -1)
    ELSE IF FIsZero(b) THEN 1
    ELSE IF a.exp < b.exp THEN -1
    ELSE IF a.exp > b.exp THEN 1
    ELSE NatCmp(a.mant, b.mant)

\* -1, 0 or 1 as a < b, a == b or a > b; the two zeros are equal
FCmp(a, b) ==
    LET na == a.neg /\ ~FIsZero(a)
        nb == b.neg /\ ~FIsZero(b)
    IN  IF na /\ ~nb THEN -1
        ELSE IF ~na /\ nb THEN 1
        ELSE IF na THEN -FCmpAbs(a, b)
        ELSE FCmpAbs(a, b)

\* a == b
FEq(a, b) == FCmp(a, b) = 0

\* a <= b
FLeq(a, b) == FCmp(a, b) <= 0

\* a < b
FLess(a, b) == FCmp(a, b) < 0

\* a + b
FAdd(a, b) ==
    IF FIsZero(a) /\ FIsZero(b) THEN [neg |-> a.neg /\ b.neg, mant |-> <<>>, exp |-> 0]
    ELSE IF FIsZero(a) THEN b
    ELSE IF FIsZero(b) THEN a
    ELSE IF a.exp - b.exp > MantBits + 2 THEN a
    ELSE IF b.exp - a.exp > MantBits + 2 THEN b
    ELSE LET e == IF a.exp < b.exp THEN a.exp ELSE b.exp
             na == NatShiftLeft(a.mant, a.exp - e)
             nb == NatShiftLeft(b.mant, b.exp - e)
             c == NatCmp(na, nb)
         IN  IF a.neg = b.neg THEN FRound(a.neg, NatAdd(na, nb), e, FALSE)
             ELSE IF c = 0 THEN FZero
             ELSE IF c > 0 THEN FRound(a.neg, NatSub(na, nb), e, FALSE)
             ELSE FRound(b.neg, NatSub(nb, na), e, FALSE)

\* a * b
FMul(a, b) ==
    IF FIsZero(a) \/ FIsZero(b) THEN [neg |-> a.neg # b.neg, mant |-> <<>>, exp |-> 0]
    ELSE FRound(a.neg # b.neg, NatMul(a.mant, b.mant), a.exp + b.exp, FALSE)

\* a / b for b != 0 (Python raises ZeroDivisionError for b == 0)
FDiv(a, b) ==
    IF FIsZero(a) THEN [neg |-> a.neg # b.neg, mant |-> <<>>, exp |-> 0]
    ELSE LET qr == NatDivMod(NatShiftLeft(a.mant, MantBits + 2), b.mant)
         IN  FRound(a.neg # b.neg, qr[1], a.exp - b.exp - (MantBits + 2), qr[2] # <<>>)

\* the float of the literal n/d, for ints n and d # 0: true division of two
\* ints is correctly rounded, as is the literal
F(n, d) == FDiv(FromInt(n), FromInt(d))

(***************************************************************************)
(* Floats in text: format(x, ".3f") and format(x, "+.3f").                 *)
(***************************************************************************)
\* a % n for 0 < n <= Base, from the most significant digit down
RECURSIVE NatModSmallFrom(_, _, _, _)
NatModSmallFrom(a, n, i, rem) ==
    IF i = 0 THEN rem ELSE NatModSmallFrom(a, n, i - 1, (rem * Base + a[i]) % n)

NatModSmall(a, n) == NatModSmallFrom(a, n, Len(a), 0)

\* the decimal digits of a as characters, none for zero
RECURSIVE NatDecimal(_)
NatDecimal(a) ==
    IF a = <<>> THEN <<>>
    ELSE NatDecimal(NatDivSmall(a, 10)) \o <<48 + NatModSmall(a, 10)>>

\* |x| * 1000 rounded to an integer, a tie to the even one
Thousandths(x) ==
    LET n == NatMulSmall(x.mant, 1000) IN
    IF x.exp >= 0 THEN NatShiftLeft(n, x.exp)
    ELSE LET k == -x.exp
             q == NatShiftRight(n, k)
             c == NatCmp(NatSub(n, NatShiftLeft(q, k)), NatShiftLeft(<<1>>, k - 1))
         IN  IF c > 0 \/ (c = 0 /\ NatIsOdd(q)) THEN NatAdd(q, <<1>>) ELSE q

\* f"{x:.3f}", and f"{x:+.3f}" when plus
FormatFixed3(x, plus) ==
    LET digits == NatDecimal(Thousandths(x))
        padded == [i \in 1..(4 - Len(digits)) |-> 48] \o digits
        sign == IF x.neg THEN <<45>> ELSE IF plus THEN <<43>> ELSE <<>>
    IN  sign \o SubSeq(padded, 1, Len(padded) - 3) \o <<46>>
            \o SubSeq(padded, Len(padded) - 2, Len(padded))

(***************************************************************************)
(* The wall clock in Europe/Oslo (datetime.now(ZoneInfo("Europe/Oslo"))). *)
(***************************************************************************)
\* days since 1970-01-01 of a proleptic Gregorian date
DaysFromCivil(y, m, d) ==
    LET yy == IF m <= 2 THEN y - 1 ELSE y
        era == yy \div 400
        yoe == yy - era * 400
        mp == IF m > 2 THEN m - 3 ELSE m + 9
        doy == (153 * mp + 2) \div 5 + d - 1
        doe == yoe * 365 + yoe \div 4 - yoe \div 100 + doy
    IN  era * 146097 + doe - 719468

\* the date of a day number
CivilFromDays(z) ==
    LET zz == z + 719468
        era == zz \div 146097
        doe == zz - era * 146097
        yoe == (doe - doe \div 1460 + doe \div 36524 - doe \div 146096) \div 365
        doy == doe - (365 * yoe + yoe \div 4 - yoe \div 100)
        mp == (5 * doy + 2) \div 153
        d == doy - (153 * mp + 2) \div 5 + 1
        m == IF mp < 10 THEN mp + 3 ELSE mp - 9
    IN  [year |-> yoe + era * 400 + (IF m <= 2 THEN 1 ELSE 0), month |-> m, day |-> d]

\* the day number of the last Sunday of a 31-day month (1970-01-01 was a Thursday)
LastSunday(y, m) ==
    LET last == DaysFromCivil(y, m, 31) IN last - ((last + 4) % 7)

\* Europe/Oslo: summer time from 01:00 UTC on the last Sunday of March to
\* 01:00 UTC on the last Sunday of October
UtcOffset(t) ==
    LET y == CivilFromDays(t \div 86400).year
    IN  IF /\ t >= LastSunday(y, 3) * 86400 + 3600
           /\ t < LastSunday(y, 10) * 86400 + 3600
        THEN 7200 ELSE 3600

\* datetime.now(tz) at epoch second t
OsloTime(t) ==
    LET loc == t + UtcOffset(t)
        date == CivilFromDays(loc \div 86400)
        secs == loc % 86400
    IN  [year |-> date.year, month |-> date.month, day |-> date.day,
         hour |-> secs \div 3600, minute |-> (secs % 3600) \div 60]

Pad2(n) == <<48 + ((n \div 10) % 10), 48 + (n % 10)>>

Pad4(n) == Pad2(n \div 100) \o Pad2(n % 100)

\* now.strftime("%H%M-%d-%m-%Y")
StrfTime(dt) ==
    Pad2(dt.hour) \o Pad2(dt.minute) \o <<45>> \o Pad2(dt.day) \o <<45>>
        \o Pad2(dt.month) \o <<45>> \o Pad4(dt.year)

\* f"oslo_news_{timestamp}.json"
NewsFileName(timestamp) ==
    <<111, 115, 108, 111, 95, 110, 101, 119, 115, 95>> \o timestamp
        \o <<46, 106, 115, 111, 110>>

(***************************************************************************)
(* fetch_oslo_news.py                                                      *)
(***************************************************************************)
\* FEEDS, in the order of the dict
FEEDS == <<"e24", "dn", "nettavisen">>

FeedNames == {FEEDS[i] : i \in 1..Len(FEEDS)}

OSLO_INDEX_KEYWORDS == <<
    <<111, 115, 108, 111, 32, 98, 248, 114, 115>>,        \* oslo boers
    <<111, 115, 108, 111, 98, 248, 114, 115>>,            \* osloboers
    <<111, 115, 108, 111, 45, 98, 248, 114, 115>>,        \* oslo-boers
    <<98, 248, 114, 115, 101, 110>>,                      \* boersen
    <<98, 248, 114, 115>>,                                \* boers
    <<104, 111, 118, 101, 100, 105, 110, 100, 101, 107, 115, 101, 110>>,  \* hovedindeksen
    <<104, 111, 118, 101, 100, 105, 110, 100, 101, 107, 115>>,           \* hovedindeks
    <<98, 248, 114, 115, 105, 110, 100, 101, 107, 115, 101, 110>>,       \* boersindeksen
    <<97, 107, 115, 106, 101, 105, 110, 100, 101, 107, 115, 101, 110>>,  \* aksjeindeksen
    <<111, 98, 120>>,                                     \* obx
    <<111, 109, 120, 32, 111, 115, 108, 111, 32, 50, 48>>,  \* omx oslo 20
    <<111, 109, 120, 32, 111, 115, 108, 111>>,            \* omx oslo
    <<98, 248, 114, 115, 102, 97, 108, 108>>,             \* boersfall
    <<98, 248, 114, 115, 111, 112, 112, 103, 97, 110, 103>>,  \* boersoppgang
    <<107, 117, 114, 115, 102, 97, 108, 108>>,            \* kursfall
    <<107, 117, 114, 115, 114, 97, 115>>,                 \* kursras
    <<98, 248, 114, 115, 107, 114, 97, 115, 106>>,        \* boerskrasj
    <<98, 248, 114, 115, 107, 111, 108, 108, 97, 112, 115>>,  \* boerskollaps
    <<98, 248, 114, 115, 114, 97, 108, 108, 121>>,        \* boersrally
    <<98, 248, 114, 115, 117, 114, 111>>,                 \* boersuro
    <<111, 108, 106, 101, 112, 114, 105, 115, 101, 110>>, \* oljeprisen
    <<111, 108, 106, 101, 112, 114, 105, 115>>,           \* oljepris
    <<98, 114, 101, 110, 116>>,                           \* brent
    <<110, 111, 114, 100, 115, 106, 248, 111, 108, 106, 101>>,  \* nordsjoeolje
    <<114, 229, 111, 108, 106, 101>>,                     \* raaolje
    <<115, 116, 121, 114, 105, 110, 103, 115, 114, 101, 110, 116, 101, 110>>,  \* styringsrenten
    <<114, 101, 110, 116, 101, 104, 101, 118, 105, 110, 103>>,  \* renteheving
    <<114, 101, 110, 116, 101, 107, 117, 116, 116>> >>    \* rentekutt

\* (item.findtext(tag) or ""): a child element is <<>> when missing (None) and
\* <<text>> when present
FindTextOrEmpty(child) == IF child = <<>> THEN <<>> ELSE child[1]

\* one item yielded by parse_rss
ParseItem(elem, source) ==
    [source |-> source,
     title |-> Strip(FindTextOrEmpty(elem.title)),
     link |-> Strip(FindTextOrEmpty(elem.link)),
     description |-> Strip(FindTextOrEmpty(elem.description)),
     published |-> Strip(FindTextOrEmpty(elem.pubDate))]

\* parse_rss on a well-formed document: its <item> elements in document order
parse_rss(doc, source) == [i \in 1..Len(doc) |-> ParseItem(doc[i], source)]

is_oslo_relevant(item) ==
    LET text == Lower(item.title \o <<32>> \o item.description)
    IN  \E k \in 1..Len(OSLO_INDEX_KEYWORDS) : Contains(text, OSLO_INDEX_KEYWORDS[k])

\* What one source answers in one run: fetch raises ("fetch_error": network
\* error, timeout, malformed URL), ET.fromstring raises on the first next() of
\* the generator ("parse_error"), or the document parses ("ok").
SourceFails(r) == r.kind # "ok"

\* A variant of the loop whose try encloses the whole loop: the first failing
\* source ends the fetching.
RECURSIVE CollectLoopAborting(_, _, _)
CollectLoopAborting(results, i, all_items) ==
    IF i > Len(FEEDS) THEN all_items
    ELSE IF SourceFails(results[FEEDS[i]]) THEN all_items
    ELSE CollectLoopAborting(results, i + 1,
            all_items \o SelectSeq(parse_rss(results[FEEDS[i]].doc, FEEDS[i]),
                                   is_oslo_relevant))

\* for name, url in FEEDS.items(): try ... except Exception
RECURSIVE CollectLoop(_, _, _)
CollectLoop(results, i, all_items) ==
    IF i > Len(FEEDS) THEN all_items
    ELSE IF SourceFails(results[FEEDS[i]])
         THEN CollectLoop(results, i + 1, all_items)
         ELSE CollectLoop(results, i + 1,
                all_items \o SelectSeq(parse_rss(results[FEEDS[i]].doc, FEEDS[i]),
                                       is_oslo_relevant))

\* A variant keyed on the link alone.
ItemKeyLinkOnly(itm) == itm.link

\* key = itm["link"] or itm["title"]
ItemKey(itm) == IF itm.link # <<>> THEN itm.link ELSE itm.title

\* the dedupe loop from position i on
RECURSIVE DedupeLoop(_, _, _, _)
DedupeLoop(all_items, i, seen, filtered) ==
    IF i > Len(all_items) THEN filtered
    ELSE LET key == ItemKey(all_items[i])
         IN  IF key \in seen
             THEN DedupeLoop(all_items, i + 1, seen, filtered)
             ELSE DedupeLoop(all_items, i + 1, seen \cup {key},
                             Append(filtered, all_items[i]))

Dedupe(all_items) == DedupeLoop(all_items, 1, {}, <<>>)

\* A variant that counts the items before the dedupe.
MakeOutputCountAll(all_items, filtered, t) ==
    [fetched_at |-> t, count |-> Len(all_items), items |-> filtered]

\* output = {"fetched_at": ..., "count": len(filtered), "items": filtered}
MakeOutput(all_items, filtered, t) ==
    [fetched_at |-> t, count |-> Len(filtered), items |-> filtered]

\* the path save_news_file writes at epoch second t
SavePath(t) == NewsFileName(StrfTime(OsloTime(t)))

\* the file at path holds data: <<>> after path.open("w") has created or
\* truncated it, <<document>> after json.dump has written the document
WriteFile(fs, path, data) ==
    [p \in (DOMAIN fs) \cup {path} |-> IF p = path THEN data ELSE fs[p]]

(***************************************************************************)
(* sentiment.py                                                            *)
(***************************************************************************)
\* 2.0
TITLE_WEIGHT == FromInt(2)

\* 1.0
DESC_WEIGHT == FromInt(1)

\* 0.2 and -0.2
POS_THRESHOLD == F(1, 5)

NEG_THRESHOLD == FNeg(F(1, 5))

\* the slice [:3] of the ranking
TopCount == 3

\* the smallest of a non-empty set of file names
MinPath(S) == CHOOSE p \in S : \A q \in S \ {p} : LexLess(p, q)

\* sorted(DATA_DIR.glob("oslo_news_*.json"))
RECURSIVE SortedPaths(_)
SortedPaths(S) ==
    IF S = {} THEN <<>> ELSE <<MinPath(S)>> \o SortedPaths(S \ {MinPath(S)})

\* load_latest_news up to latest = files[-1]: raises FileNotFoundError without
\* a directory or without a file (ok = FALSE), else picks the last file name
latest_file(exists, fs) ==
    IF ~exists \/ DOMAIN fs = {}
    THEN [ok |-> FALSE, path |-> <<>>]
    ELSE LET sorted == SortedPaths(DOMAIN fs)
         IN  [ok |-> TRUE, path |-> <<sorted[Len(sorted)]>>]

\* latest.open() and json.load(f): raises json.JSONDecodeError on a file that
\* holds no complete document (ok = FALSE), else returns the document
json_load(fs, path) ==
    IF fs[path] = <<>>
    THEN [ok |-> FALSE, data |-> <<>>]
    ELSE [ok |-> TRUE, data |-> fs[path]]

\* score_text; clf maps a stripped text to the pipeline's first result
\* [label, score]
score_text(clf, text) ==
    LET t == Strip(text) IN
    IF t = <<>> THEN FZero
    ELSE LET label == Upper(clf[t].label)
             score == clf[t].score
         IN  IF Contains(label, <<78, 69, 71>>) \/ EndsWith(label, <<48>>)
             THEN FNeg(score)
             ELSE IF Contains(label, <<80, 79, 83>>) \/ EndsWith(label, <<49>>)
             THEN score
             ELSE FZero

\* A variant that keeps the weight of an empty field.
score_article_unconditional_weights(clf, item) ==
    LET s_title == score_text(clf, item.title)
        s_desc == score_text(clf, item.description)
        total_w == FAdd(TITLE_WEIGHT, DESC_WEIGHT)
    IN  FDiv(FAdd(FMul(s_title, TITLE_WEIGHT), FMul(s_desc, DESC_WEIGHT)), total_w)

score_article(clf, item) ==
    LET s_title == score_text(clf, item.title)
        s_desc == score_text(clf, item.description)
        w_title == IF Strip(item.title) # <<>> THEN TITLE_WEIGHT ELSE FZero
        w_desc == IF Strip(item.description) # <<>> THEN DESC_WEIGHT ELSE FZero
        total_w == FAdd(w_title, w_desc)
    IN  IF FEq(total_w, FromInt(0)) THEN FZero
        ELSE FDiv(FAdd(FMul(s_title, w_title), FMul(s_desc, w_desc)), total_w)

\* sum(scores): from the int 0, left to right; acc is the sum of the first
\* i - 1 scores
RECURSIVE SumFrom(_, _, _)
SumFrom(scores, i, acc) ==
    IF i > Len(scores) THEN acc ELSE SumFrom(scores, i + 1, FAdd(acc, scores[i]))

Sum(scores) == SumFrom(scores, 1, FromInt(0))

\* A variant that returns the sum without dividing by the number of scores.
aggregate_scores_sum(scores) ==
    IF scores = <<>> THEN FZero ELSE Sum(scores)

aggregate_scores(scores) ==
    IF scores = <<>> THEN FZero ELSE FDiv(Sum(scores), FromInt(Len(scores)))

\* A variant with strict comparisons.
score_to_signal_strict(score) ==
    IF FLess(POS_THRESHOLD, score) THEN "BULL"
    ELSE IF FLess(score, NEG_THRESHOLD) THEN "BEAR"
    ELSE "FLAT"

score_to_signal(score) ==
    IF FLeq(POS_THRESHOLD, score) THEN "BULL"
    ELSE IF FLeq(score, NEG_THRESHOLD) THEN "BEAR"
    ELSE "FLAT"

\* A variant of the insertion that puts x before the entries of equal |score|
\* (a sort that is not stable).
RECURSIVE InsertByAbsBeforeEqual(_, _)
InsertByAbsBeforeEqual(sorted, x) ==
    IF sorted = <<>> THEN <<x>>
    ELSE IF FLeq(FAbs(Head(sorted)[2]), FAbs(x[2])) THEN <<x>> \o sorted
    ELSE <<Head(sorted)>> \o InsertByAbsBeforeEqual(Tail(sorted), x)

\* x enters a sequence sorted by descending |score| behind every entry whose
\* |score| is not smaller: entries of equal |score| keep their order
RECURSIVE InsertByAbs(_, _)
InsertByAbs(sorted, x) ==
    IF sorted = <<>> THEN <<x>>
    ELSE IF FLess(FAbs(Head(sorted)[2]), FAbs(x[2])) THEN <<x>> \o sorted
    ELSE <<Head(sorted)>> \o InsertByAbs(Tail(sorted), x)

\* sorted(article_scores, key=lambda x: abs(x[1]), reverse=True); sorted is
\* stable, also with reverse=True
RECURSIVE SortedByAbs(_, _, _)
SortedByAbs(article_scores, i, acc) ==
    IF i > Len(article_scores) THEN acc
    ELSE SortedByAbs(article_scores, i + 1, InsertByAbs(acc, article_scores[i]))

top_articles(article_scores) ==
    LET sorted == SortedByAbs(article_scores, 1, <<>>)
    IN  SubSeq(sorted, 1, IF Len(sorted) < TopCount THEN Len(sorted) ELSE TopCount)

\* the fixed text sent when the snapshot has no items
NoNewsMessage == [kind |-> "no_relevant_news", signal |-> "FLAT", overall |-> <<>>, top |-> <<>>]

\* the lines of the report: overall score as f"{overall:.3f}", signal, and for
\* each top headline its source, f"{s:+.3f}" and the stripped title
ReportMessage(overall, signal, top) ==
    [kind |-> "report", signal |-> signal, overall |-> <<FormatFixed3(overall, FALSE)>>,
     top |-> [i \in 1..Len(top) |->
                [source |-> top[i][1].source, score |-> FormatFixed3(top[i][2], TRUE),
                 title |-> Strip(top[i][1].title)]]]

\* send_telegram returns None on every path; the message is delivered only when
\* both environment variables are set and the POST answers ok.  attempt is
\* "env_missing", "ok", "http_error" or "exception"
send_telegram(message, attempt) ==
    [message |-> message, delivered |-> attempt = "ok"]

(***************************************************************************)
(* Inputs.                                                                 *)
(***************************************************************************)
\* <item> elements as the feeds may hold them; a child is <<>> (missing) or
\* <<text>>
RawBors ==      \* "Oslo Boers faller" (with o-slash), link "a", no description
    [title |-> << <<79, 115, 108, 111, 32, 66, 248, 114, 115, 32, 102, 97, 108, 108, 101, 114>> >>,
     link |-> << <<97>> >>, description |-> <<>>, pubDate |-> << <<77, 111, 110>> >>]

RawSport ==     \* "Unrelated sports news", link "b", empty description
    [title |-> << <<85, 110, 114, 101, 108, 97, 116, 101, 100, 32, 115, 112, 111, 114,
                    116, 115, 32, 110, 101, 119, 115>> >>,
     link |-> << <<98>> >>, description |-> << <<>> >>, pubDate |-> <<>>]

RawObx ==       \* title "a", no link, description "OBX opp" after an
                \* ideographic space and a space and before a line separator
    [title |-> << <<97>> >>, link |-> <<>>,
     description |-> << <<12288, 32, 79, 66, 88, 32, 111, 112, 112, 8232>> >>, pubDate |-> <<>>]

RawBrent ==     \* "Brent stiger" after an em space, link " b ", description "duplicate"
    [title |-> << <<8195, 66, 114, 101, 110, 116, 32, 115, 116, 105, 103, 101, 114>> >>,
     link |-> << <<32, 98, 32>> >>,
     description |-> << <<100, 117, 112, 108, 105, 99, 97, 116, 101>> >>, pubDate |-> <<>>]

RawKelvin ==    \* "KURSRAS" with the Kelvin sign for its K, link "k", no description
    [title |-> << <<8490, 85, 82, 83, 82, 65, 83>> >>,
     link |-> << <<107>> >>, description |-> <<>>, pubDate |-> <<>>]

RawBlankTitle ==  \* title of a space and an em space, link "c", description "Brent stiger"
    [title |-> << <<32, 8195>> >>, link |-> << <<99>> >>,
     description |-> << <<66, 114, 101, 110, 116, 32, 115, 116, 105, 103, 101, 114>> >>,
     pubDate |-> <<>>]

RawEmpty ==     \* an <item> without children
    [title |-> <<>>, link |-> <<>>, description |-> <<>>, pubDate |-> <<>>]

RawPool == {RawBors, RawSport, RawObx, RawBrent, RawKelvin}

\* documents of exactly n items
RECURSIVE DocsOfLen(_)
DocsOfLen(n) ==
    IF n = 0 THEN {<<>>}
    ELSE {Append(d, e) : d \in DocsOfLen(n - 1), e \in RawPool}

\* what a source may answer in a run, by the number of items it delivers
ResultsOfLen(n) ==
    {[kind |-> "ok", doc |-> d] : d \in DocsOfLen(n)}
        \cup (IF n = 0
              THEN {[kind |-> "fetch_error", doc |-> <<>>], [kind |-> "parse_error", doc |-> <<>>]}
              ELSE {})

\* every combination of answers with at most MaxItems items in all
AllResults ==
    UNION {{[n \in FeedNames |-> IF n = FEEDS[1] THEN x ELSE IF n = FEEDS[2] THEN y ELSE z] :
                x \in ResultsOfLen(l[1]), y \in ResultsOfLen(l[2]), z \in ResultsOfLen(l[3])} :
           l \in {k \in [1..3 -> 0..MaxItems] : k[1] + k[2] + k[3] <= MaxItems}}

\* the runs of the whole pipeline: every source fails; e24 alone answers,
\* with one relevant item; two sources answer with three items, two of one key
Failing == [kind |-> "fetch_error", doc |-> <<>>]

PipelineResults ==
    {[n \in FeedNames |-> Failing],
     [n \in FeedNames |-> IF n = "e24" THEN [kind |-> "ok", doc |-> <<RawBors>>] ELSE Failing],
     [n \in FeedNames |-> IF n = "dn" THEN [kind |-> "parse_error", doc |-> <<>>]
                          ELSE IF n = "e24" THEN [kind |-> "ok", doc |-> <<RawSport, RawBrent>>]
                          ELSE [kind |-> "ok", doc |-> <<RawObx, RawBors>>]]}

\* the instants at which something runs: 2025-10-26 00:29:10 UTC is 02:29:10
\* summer time in Oslo, 31 minutes before the clocks go back
T0 == DaysFromCivil(2025, 10, 26) * 86400 + 29 * 60 + 10

ClockOffsets == {0, 20, 3600, 82800}

Instants == {T0 + o : o \in ClockOffsets}

\* labels and confidences of the text classifier
Labels ==
    {<<78, 69, 71, 65, 84, 73, 86, 69>>,        \* NEGATIVE
     <<80, 79, 83, 73, 84, 73, 86, 69>>,        \* POSITIVE
     <<76, 65, 66, 69, 76, 95, 48>>,            \* LABEL_0
     <<76, 65, 66, 69, 76, 95, 49>>,            \* LABEL_1
     <<110, 101, 103, 97, 116, 105, 118, 101>>, \* negative
     <<78, 69, 85, 84, 82, 65, 76>>,            \* NEUTRAL
     <<76, 65, 66, 69, 76, 95, 50>>,            \* LABEL_2
     <<76, 65, 66, 69, 76, 95, 49, 48>>,        \* LABEL_10
     <<112, 111, 383>>}                         \* "po" and a long s

\* 0.0, 0.3, 0.5, 0.75, 0.9 and 1.0
Confidences == {F(0, 1), F(3, 10), F(1, 2), F(3, 4), F(9, 10), F(1, 1)}

ClfOutputs == {[label |-> l, score |-> c] : l \in Labels, c \in Confidences}

\* the items parse_rss can yield from the elements above
ParsedItems ==
    {ParseItem(e, "e24") : e \in RawPool \cup {RawBlankTitle, RawEmpty}}

\* the texts score_article hands to the classifier for an item
TextsOf(item) == {Strip(item.title), Strip(item.description)} \ {<<>>}

\* every text of the pipeline's items
KnownTexts == UNION {TextsOf(i) : i \in ParsedItems}

\* classifiers of the pipeline runs: one answer for every text, or NEGATIVE
\* for the titles of one letter and POSITIVE elsewhere
PipelineClassifiers ==
    {[t \in KnownTexts |-> [label |-> <<80, 79, 83, 73, 84, 73, 86, 69>>, score |-> F(9, 10)]],
     [t \in KnownTexts |-> [label |-> <<76, 65, 66, 69, 76, 95, 50>>, score |-> F(1, 2)]],
     [t \in KnownTexts |->
        IF Len(t) = 1 THEN [label |-> <<78, 69, 71, 65, 84, 73, 86, 69>>, score |-> F(1, 1)]
        ELSE [label |-> <<80, 79, 83, 73, 84, 73, 86, 69>>, score |-> F(1, 2)]]}

\* overall scores around the thresholds, in ten-thousandths, and the means of
\* 0.3, 0.3, 0.0 and of -0.3, -0.3, 0.0 (0.19999999999999998 and its negative)
SignalScores ==
    {F(n, 10000) : n \in (-2003..-1997) \cup (-2..2) \cup (1997..2003) \cup {-10000, 10000}}
        \cup {FDiv(FAdd(F(3, 10), F(3, 10)), FromInt(3)),
              FDiv(FAdd(F(-3, 10), F(-3, 10)), FromInt(3)), FNegZero}

\* article scores handed to the ranking
RankScores == {F(1, 2), F(-1, 2), F(3, 10), FZero}

\* article scores handed to the aggregation
MeanScores == RankScores \cup {F(1, 10)}

RECURSIVE SeqsUpTo(_, _)
SeqsUpTo(S, n) ==
    IF n = 0 THEN {<<>>}
    ELSE LET shorter == SeqsUpTo(S, n - 1)
         IN  shorter \cup {Append(q, e) : q \in {x \in shorter : Len(x) = n - 1}, e \in S}

\* the i-th article of a ranking input: its title is the digit i
NumberedItem(i) ==
    [source |-> "e24", title |-> <<48 + i>>, link |-> <<>>, description |-> <<>>,
     published |-> <<>>]

(***************************************************************************)
(* The state machine.                                                      *)
(***************************************************************************)
NoRun ==
    [pc |-> "idle", latest |-> <<>>, outcome |-> "none", calls |-> <<>>, loaded |-> <<>>,
     newest |-> <<>>]

NoCollect ==
    [pc |-> "idle", returned |-> FALSE, results |-> [n \in FeedNames |-> Failing],
     all_items |-> <<>>, output |-> [fetched_at |-> 0, count |-> 0, items |-> <<>>],
     saved_path |-> <<>>]

Init ==
    /\ now = T0
    /\ dir_exists = FALSE
    /\ files = <<>>
    /\ saves = 0
    /\ last_saved = <<>>
    /\ collected = NoCollect
    /\ run = NoRun
    /\ probe = [fn |-> "none"]

\* time passes
Tick ==
    /\ \E t \in Instants : t > now /\ now' = t
    /\ UNCHANGED <<dir_exists, files, saves, last_saved, collected, run, probe>>

\* collect_oslo_news(save) with the answers the sources give in this run, up
\* to the output with its reading of the clock; with save=False it returns.
\* The fetches read no state of the model, so the time they take is the time
\* that passes before this step.
collect_oslo_news(results, save) ==
    LET all_items == CollectLoop(results, 1, <<>>)
        filtered == Dedupe(all_items)
        output == MakeOutput(all_items, filtered, now)
    IN  /\ collected.pc = "idle"
        /\ save => saves < MaxSaves
        /\ collected' = [pc |-> IF save THEN "save_news_file" ELSE "idle",
                         returned |-> ~save, results |-> results, all_items |-> all_items,
                         output |-> output, saved_path |-> <<>>]
        /\ UNCHANGED <<now, dir_exists, files, saves, last_saved, run, probe>>

\* save_news_file up to path.open("w"): it reads the clock again, makes the
\* directory and creates or truncates the file
save_news_file_open ==
    /\ collected.pc = "save_news_file"
    /\ LET path == SavePath(now)
       IN  /\ dir_exists' = TRUE
           /\ files' = WriteFile(files, path, <<>>)
           /\ collected' = [collected EXCEPT !.pc = "json.dump", !.saved_path = <<path>>]
    /\ UNCHANGED <<now, saves, last_saved, run, probe>>

\* json.dump, the end of the with block and the return of collect_oslo_news
save_news_file_dump ==
    /\ collected.pc = "json.dump"
    /\ files' = WriteFile(files, collected.saved_path[1], <<collected.output>>)
    /\ saves' = saves + 1
    /\ last_saved' = <<collected.output>>
    /\ collected' = [collected EXCEPT !.pc = "idle", !.returned = TRUE]
    /\ UNCHANGED <<now, dir_exists, run, probe>>

\* the start of a run of fetch_oslo_news.main, which calls
\* collect_oslo_news(save=True); a run starts when the one before has returned
FetchRun ==
    \E results \in PipelineResults : collect_oslo_news(results, TRUE)

\* collect_oslo_news(save=False) on the answers drawn for this behaviour
CollectRun ==
    /\ ~collected.returned
    /\ collect_oslo_news(collected.results, FALSE)

\* sentiment.main up to latest = files[-1] in load_latest_news: the directory
\* is listed now and the file is read in the next step
load_latest_news ==
    /\ run.pc = "idle"
    /\ LET latest == latest_file(dir_exists, files)
       IN  run' = IF ~latest.ok
                  THEN [NoRun EXCEPT !.outcome = "no_snapshot", !.newest = last_saved]
                  ELSE [NoRun EXCEPT !.pc = "latest.open", !.latest = latest.path,
                                     !.newest = last_saved]
    /\ UNCHANGED <<now, dir_exists, files, saves, last_saved, collected, probe>>

\* sentiment.main from latest.open() on
main(pipeline_ok, clf, attempt) ==
    LET loadres == json_load(files, run.latest[1]) IN
    /\ run.pc = "latest.open"
    /\ run' =
        IF ~loadres.ok
        THEN [run EXCEPT !.pc = "idle", !.outcome = "unreadable_snapshot"]
        ELSE LET data == loadres.data[1]
                 items == data.items
             IN  IF items = <<>>
                 THEN [run EXCEPT !.pc = "idle", !.outcome = "no_items",
                                  !.calls = <<send_telegram(NoNewsMessage, attempt)>>,
                                  !.loaded = <<data>>]
                 ELSE IF ~pipeline_ok
                 THEN [run EXCEPT !.pc = "idle", !.outcome = "scorer_unavailable",
                                  !.loaded = <<data>>]
                 ELSE LET article_scores ==
                              [i \in 1..Len(items) |-> <<items[i], score_article(clf, items[i])>>]
                          overall ==
                              aggregate_scores([i \in 1..Len(items) |-> article_scores[i][2]])
                          signal == score_to_signal(overall)
                          message == ReportMessage(overall, signal, top_articles(article_scores))
                      IN  [run EXCEPT !.pc = "idle", !.outcome = "success",
                                      !.calls = <<send_telegram(message, attempt)>>,
                                      !.loaded = <<data>>]
    /\ UNCHANGED <<now, dir_exists, files, saves, last_saved, collected, probe>>

SentimentRun ==
    \E pipeline_ok \in BOOLEAN, clf \in PipelineClassifiers,
       attempt \in {"env_missing", "ok", "http_error", "exception"} :
        main(pipeline_ok, clf, attempt)

Next ==
    \/ Tick
    \/ FetchRun
    \/ save_news_file_open
    \/ save_news_file_dump
    \/ load_latest_news
    \/ SentimentRun

Spec == Init /\ [][Next]_vars

\* one collection run for every combination of answers of the three sources
InitCollect ==
    /\ now = T0
    /\ dir_exists = FALSE
    /\ files = <<>>
    /\ saves = 0
    /\ last_saved = <<>>
    /\ \E results \in AllResults : collected = [NoCollect EXCEPT !.results = results]
    /\ run = NoRun
    /\ probe = [fn |-> "none"]

NextCollect == CollectRun

SpecCollect == InitCollect /\ [][NextCollect]_vars

(***************************************************************************)
(* The scoring functions called directly: the call is drawn in the initial *)
(* state and one action applies the function.                              *)
(***************************************************************************)
ScoreTextCalls ==
    {[fn |-> "score_text", done |-> FALSE, text |-> t, out |-> o, result |-> <<>>] :
        t \in {<<>>, <<32, 32>>, <<8195>>, <<97>>,
               <<12288, 32, 79, 66, 88, 32, 111, 112, 112, 8232>>},
        o \in ClfOutputs}

ScoreArticleCalls ==
    UNION {{[fn |-> "score_article", done |-> FALSE, item |-> i, clf |-> c, result |-> <<>>] :
                c \in [TextsOf(i) -> ClfOutputs]} : i \in ParsedItems}

ScoreToSignalCalls ==
    {[fn |-> "score_to_signal", done |-> FALSE, score |-> x, result |-> <<>>] :
        x \in SignalScores}

AggregateCalls ==
    {[fn |-> "aggregate_scores", done |-> FALSE, scores |-> q, result |-> <<>>] :
        q \in SeqsUpTo(MeanScores, MaxArticles)}

TopArticlesCalls ==
    {[fn |-> "top_articles", done |-> FALSE, scores |-> q, result |-> <<>>] :
        q \in SeqsUpTo(RankScores, MaxArticles)}

\* the (item, score) pairs of a ranking call
ArticleScoresOf(scores) == [i \in 1..Len(scores) |-> <<NumberedItem(i), scores[i]>>]

InitScore ==
    /\ now = T0
    /\ dir_exists = FALSE
    /\ files = <<>>
    /\ saves = 0
    /\ last_saved = <<>>
    /\ collected = NoCollect
    /\ run = NoRun
    /\ probe \in ScoreTextCalls \cup ScoreArticleCalls \cup ScoreToSignalCalls
                    \cup AggregateCalls \cup TopArticlesCalls

Returns(value) ==
    /\ probe' = [probe EXCEPT !.done = TRUE, !.result = <<value>>]
    /\ UNCHANGED <<now, dir_exists, files, saves, last_saved, collected, run>>

CallScoreText ==
    /\ probe.fn = "score_text" /\ ~probe.done
    /\ Returns(score_text([t \in {Strip(probe.text)} |-> probe.out], probe.text))

CallScoreArticle ==
    /\ probe.fn = "score_article" /\ ~probe.done
    /\ Returns(score_article(probe.clf, probe.item))

CallScoreToSignal ==
    /\ probe.fn = "score_to_signal" /\ ~probe.done
    /\ Returns(score_to_signal(probe.score))

CallAggregateScores ==
    /\ probe.fn = "aggregate_scores" /\ ~probe.done
    /\ Returns(aggregate_scores(probe.scores))

CallTopArticles ==
    /\ probe.fn = "top_articles" /\ ~probe.done
    /\ Returns(top_articles(ArticleScoresOf(probe.scores)))

NextScore ==
    \/ CallScoreText
    \/ CallScoreArticle
    \/ CallScoreToSignal
    \/ CallAggregateScores
    \/ CallTopArticles

SpecScore == InitScore /\ [][NextScore]_vars

(***************************************************************************)
(* Properties.                                                             *)
(***************************************************************************)
\* a sentiment run that got a snapshot from load_latest_news
RunLoaded == run.outcome \in {"no_items", "scorer_unavailable", "success"}

\* C1: load_latest_news returns the snapshot written most recently: the
\* document a sentiment run loads is the one the last save_news_file had
\* written when the run listed the directory.
C1_LatestIsNewest == RunLoaded => run.loaded = run.newest

\* C2: every saving run creates a new file: whenever no save is under way, the
\* number of files in DATA_DIR equals the number of completed saving runs.
C2_AppendOnly == collected.pc = "idle" => Cardinality(DOMAIN files) = saves

\* C3: a sentiment run that ends in success, without a snapshot or with a
\* snapshot of zero items calls send_telegram exactly once, and in the two
\* no-data cases the message is the FLAT notice "no relevant news items".
C3_ExactlyOneNotification ==
    run.outcome \in {"success", "no_snapshot", "no_items"} =>
        /\ Len(run.calls) = 1
        /\ run.outcome \in {"no_snapshot", "no_items"} =>
              /\ run.calls[1].message.kind = "no_relevant_news"
              /\ run.calls[1].message.signal = "FLAT"

\* what the claims call a relevant item: a keyword occurs in the lowercased
\* "title description"
HasKeyword(item) ==
    \E k \in 1..Len(OSLO_INDEX_KEYWORDS) :
        Contains(Lower(item.title \o <<32>> \o item.description), OSLO_INDEX_KEYWORDS[k])

\* what source number i owes to the result: nothing when it failed, else its
\* relevant items in document order
Contribution(results, i) ==
    IF results[FEEDS[i]].kind \in {"fetch_error", "parse_error"} THEN <<>>
    ELSE SelectSeq([j \in 1..Len(results[FEEDS[i]].doc) |->
                        ParseItem(results[FEEDS[i]].doc[j], FEEDS[i])], HasKeyword)

\* the identity key of the claims: the link if non-empty, else the title
IdentityKey(itm) == IF Len(itm.link) > 0 THEN itm.link ELSE itm.title

\* C4: whichever sources fail, the run returns a snapshot whose collected
\* items are the contributions of e24, dn and nettavisen in this order, a
\* failing source contributing nothing and every other source all of its
\* relevant items; the snapshot loses none of them except as a duplicate of a
\* kept item.
C4_FailuresDoNotAbort ==
    collected.returned =>
        /\ collected.all_items =
              Contribution(collected.results, 1) \o Contribution(collected.results, 2)
                  \o Contribution(collected.results, 3)
        /\ \A i \in 1..Len(collected.all_items) :
              \E j \in 1..Len(collected.output.items) :
                  IdentityKey(collected.output.items[j]) = IdentityKey(collected.all_items[i])

\* a run in which e24 and dn fail and nettavisen still delivers
C4_Witness ==
    /\ collected.returned
    /\ collected.results["e24"].kind = "parse_error"
    /\ collected.results["dn"].kind = "fetch_error"
    /\ Len(collected.output.items) = 2
    /\ \A i \in 1..2 : collected.output.items[i].source = "nettavisen"

\* the positions of the first occurrence of each identity key
FirstOccurrences(a) ==
    {i \in 1..Len(a) : \A j \in 1..(i - 1) : IdentityKey(a[j]) # IdentityKey(a[i])}

\* C5: the snapshot's items hold no identity key twice, and they are the
\* first occurrence of each key among the relevant items, in their order.
C5_DedupeFirstOccurrence ==
    collected.returned =>
        LET a == collected.all_items
            f == collected.output.items
            first == FirstOccurrences(a)
        IN  /\ \A i, j \in 1..Len(f) : i # j => IdentityKey(f[i]) # IdentityKey(f[j])
            /\ Len(f) = Cardinality(first)
            /\ \A i \in first : f[Cardinality({j \in first : j <= i})] = a[i]

\* a later item of a kept key, differing in source and description, is dropped
\* and two keys remain
C5_Witness ==
    /\ collected.returned
    /\ Len(collected.output.items) = 2
    /\ \E i, j \in 1..Len(collected.all_items) :
          /\ i < j
          /\ IdentityKey(collected.all_items[i]) = IdentityKey(collected.all_items[j])
          /\ collected.all_items[i].source # collected.all_items[j].source
          /\ collected.all_items[i].description # collected.all_items[j].description

\* C6: in every snapshot collect_oslo_news returns, count is the length of
\* items.
C6_CountIsLength ==
    collected.returned => collected.output.count = Len(collected.output.items)

\* a snapshot of two items left of three relevant ones
C6_Witness ==
    /\ collected.returned
    /\ Len(collected.all_items) = 3
    /\ collected.output.count = 2

(***************************************************************************)
(* Exact arithmetic, for the statements about scores: a number is          *)
(* [neg, mant, exp] of value (-1)^neg * mant * 2^exp with mant of any      *)
(* size, so every float is a number and no operation rounds.               *)
(***************************************************************************)
ExactAdd(a, b) ==
    LET e == IF a.exp < b.exp THEN a.exp ELSE b.exp
        na == NatShiftLeft(a.mant, a.exp - e)
        nb == NatShiftLeft(b.mant, b.exp - e)
    IN  IF a.neg = b.neg THEN [neg |-> a.neg, mant |-> NatAdd(na, nb), exp |-> e]
        ELSE IF NatCmp(na, nb) >= 0 THEN [neg |-> a.neg, mant |-> NatSub(na, nb), exp |-> e]
        ELSE [neg |-> b.neg, mant |-> NatSub(nb, na), exp |-> e]

ExactNeg(a) == [a EXCEPT !.neg = ~a.neg]

ExactAbs(a) == [a EXCEPT !.neg = FALSE]

\* a * k for an integer 0 <= k < Base
ExactTimes(a, k) == [a EXCEPT !.mant = NatMulSmall(a.mant, k)]

\* a * 2^k
ExactScale(a, k) == [a EXCEPT !.exp = a.exp + k]

\* a <= b
ExactLeq(a, b) ==
    LET d == ExactAdd(b, ExactNeg(a)) IN d.mant = <<>> \/ ~d.neg

\* |a| <= |b|
ExactAbsLeq(a, b) == ExactLeq(ExactAbs(a), ExactAbs(b))

\* the number 1
ExactOne == [neg |-> FALSE, mant |-> <<1>>, exp |-> 0]

\* C7: score_to_signal gives BULL exactly for overall >= 0.2, BEAR exactly
\* for overall <= -0.2 and FLAT otherwise; 0.2 is BULL, -0.2 is BEAR and
\* 0.1999 is FLAT.  (No double lies between 1/5 and the double 0.2, so
\* overall >= 0.2 is 5 * overall >= 1 in exact arithmetic.)
C7_InclusiveThresholds ==
    (probe.fn = "score_to_signal" /\ probe.done) =>
        LET x == probe.score
            signal == probe.result[1]
            high == ExactLeq(ExactOne, ExactTimes(x, 5))
            low == ExactLeq(ExactTimes(x, 5), ExactNeg(ExactOne))
        IN  /\ signal = "BULL" <=> high
            /\ signal = "BEAR" <=> low
            /\ signal = "FLAT" <=> (~high /\ ~low)
            /\ x = F(1, 5) => signal = "BULL"
            /\ x = F(-1, 5) => signal = "BEAR"
            /\ x = F(1999, 10000) => signal = "FLAT"

\* score_to_signal was called with exactly 0.2
C7_Witness ==
    /\ probe.fn = "score_to_signal" /\ probe.done
    /\ probe.score = F(1, 5)
    /\ probe.result = <<"BULL">>

\* the labels of the classifier by meaning
NegativeLabels ==
    {<<78, 69, 71, 65, 84, 73, 86, 69>>, <<110, 101, 103, 97, 116, 105, 118, 101>>,
     <<76, 65, 66, 69, 76, 95, 48>>}

PositiveLabels == {<<80, 79, 83, 73, 84, 73, 86, 69>>, <<76, 65, 66, 69, 76, 95, 49>>}

\* C8: on a text the classifier is asked about, score_text returns
\* -confidence for a negative label, +confidence for a positive label and 0
\* for any other label.
C8_LabelNormalisation ==
    (probe.fn = "score_text" /\ probe.done /\ Strip(probe.text) # <<>>) =>
        probe.result[1] =
            IF probe.out.label \in NegativeLabels
            THEN [probe.out.score EXCEPT !.neg = ~probe.out.score.neg]
            ELSE IF probe.out.label \in PositiveLabels THEN probe.out.score
            ELSE [neg |-> FALSE, mant |-> <<>>, exp |-> 0]

\* C9: score_article returns (s_title*w_title + s_desc*w_desc)/(w_title +
\* w_desc), to the rounding of its one addition and one division, with weight
\* 2 for a non-empty title, 1 for a non-empty description and 0 for an empty
\* field: 0.0 when both are empty, a value equal to the title's score when
\* only the title is there, and always a value in [-1, 1].
C9_WeightedScore ==
    (probe.fn = "score_article" /\ probe.done) =>
        LET s_title == score_text(probe.clf, probe.item.title)
            s_desc == score_text(probe.clf, probe.item.description)
            w_title == IF Len(probe.item.title) > 0 THEN 2 ELSE 0
            w_desc == IF Len(probe.item.description) > 0 THEN 1 ELSE 0
            r == probe.result[1]
            weighted == ExactAdd(ExactTimes(s_title, w_title), ExactTimes(s_desc, w_desc))
            error == ExactAdd(ExactTimes(r, w_title + w_desc), ExactNeg(weighted))
        IN  /\ w_title + w_desc = 0 => r = [neg |-> FALSE, mant |-> <<>>, exp |-> 0]
            /\ w_title + w_desc > 0 => ExactAbsLeq(error, ExactScale(weighted, -51))
            /\ (w_title > 0 /\ w_desc = 0) => ExactLeq(r, s_title) /\ ExactLeq(s_title, r)
            /\ ExactAbsLeq(r, ExactOne)

\* an item with a NEGATIVE 0.75 title and a POSITIVE 0.9 description got the
\* score -0.19999999999999998
C9_Witness ==
    /\ probe.fn = "score_article" /\ probe.done
    /\ probe.item.title # <<>> /\ probe.item.description # <<>>
    /\ probe.result[1] = FNeg(FDiv(FAdd(F(3, 10), F(3, 10)), FromInt(3)))

\* the position in the scored sequence of an entry of a ranking call
PositionOf(entry) == entry[1].title[1] - 48

\* |a| < |b| and |a| = |b| for scores
AbsLess(a, b) == ~ExactAbsLeq(b, a)

AbsEqual(a, b) == ExactAbsLeq(a, b) /\ ExactAbsLeq(b, a)

\* C10: the top articles are min(3, n) entries of the scored sequence, in
\* descending order of |score| with equal |score| in sequence order, and
\* every omitted article has a smaller |score| than each reported one or the
\* same |score| and a later position.
C10_TopArticles ==
    (probe.fn = "top_articles" /\ probe.done) =>
        LET scored == ArticleScoresOf(probe.scores)
            top == probe.result[1]
            n == Len(scored)
            pos == {PositionOf(top[k]) : k \in 1..Len(top)}
        IN  /\ Len(top) = (IF n < 3 THEN n ELSE 3)
            /\ Len(top) <= 3
            /\ \A k \in 1..Len(top) :
                  PositionOf(top[k]) \in 1..n /\ top[k] = scored[PositionOf(top[k])]
            /\ \A k \in 1..(Len(top) - 1) :
                  \/ AbsLess(top[k + 1][2], top[k][2])
                  \/ /\ AbsEqual(top[k + 1][2], top[k][2])
                     /\ PositionOf(top[k]) < PositionOf(top[k + 1])
            /\ \A j \in (1..n) \ pos : \A k \in 1..Len(top) :
                  \/ AbsLess(scored[j][2], top[k][2])
                  \/ AbsEqual(scored[j][2], top[k][2]) /\ PositionOf(top[k]) < j

\* four articles, a tie in |score| of opposite signs inside the top three and
\* a tie across the cut
C10_Witness ==
    /\ probe.fn = "top_articles" /\ probe.done
    /\ probe.scores = <<F(3, 10), F(-1, 2), F(3, 10), F(1, 2)>>
    /\ Len(probe.result[1]) = 3
    /\ PositionOf(probe.result[1][1]) = 2
    /\ PositionOf(probe.result[1][2]) = 4
    /\ PositionOf(probe.result[1][3]) = 1

\* the exact sum of the scores from position i on
RECURSIVE ExactSum(_, _)
ExactSum(scores, i) ==
    IF i > Len(scores) THEN [neg |-> FALSE, mant |-> <<>>, exp |-> 0]
    ELSE ExactAdd(scores[i], ExactSum(scores, i + 1))

\* C11: aggregate_scores returns the arithmetic mean of the scores, to the
\* rounding of its additions and its division (result times n differs from
\* the exact sum by at most n * 2^-52 times the sum of the |score|), and 0.0
\* for an empty sequence, which score_to_signal classifies as FLAT.
C11_MeanOrZero ==
    (probe.fn = "aggregate_scores" /\ probe.done) =>
        LET r == probe.result[1]
            n == Len(probe.scores)
            total == ExactSum(probe.scores, 1)
            size == ExactSum([i \in 1..n |-> ExactAbs(probe.scores[i])], 1)
            error == ExactAdd(ExactTimes(r, n), ExactNeg(total))
        IN  /\ n > 0 => ExactAbsLeq(error, ExactScale(ExactTimes(size, n), -52))
            /\ n = 0 => r = [neg |-> FALSE, mant |-> <<>>, exp |-> 0]
                        /\ score_to_signal(r) = "FLAT"

\* the mean of 0.3, 0.3 and 0.0 is 0.19999999999999998, below the double 0.2
C11_Witness ==
    /\ probe.fn = "aggregate_scores" /\ probe.done
    /\ probe.scores = <<F(3, 10), F(3, 10), FZero>>
    /\ probe.result = <<FDiv(FAdd(F(3, 10), F(3, 10)), FromInt(3))>>
    /\ AbsLess(probe.result[1], F(1, 5))

====
